---- MODULE Spec2Model ----
(***************************************************************************)
(* bisonbotkit: the notification multiplexer (Bot.Run, botkit.go) and the  *)
(* in-memory log buffer (logging/logger.go).                               *)
(*                                                                         *)
(* Bot.Run builds an errgroup over the caller's context, starts one        *)
(* goroutine per non-nil notification channel and returns g.Wait().  The   *)
(* per-kind notification loops (gcNtfns, pmNtfns, ...) are called by Run   *)
(* but their bodies are not among the sources; they follow the loop given  *)
(* in section 4.3 of the specification.                                    *)
(***************************************************************************)
EXTENDS Integers, Sequences, FiniteSets, TLC

\* ------------------------------------------------------------------ bounds

\* Number of items a notification stream can deliver in one run.
MaxItems == 2

\* Largest LogBuffer capacity tried.
MaxBufLines == 3

\* Number of LogBuffer.Write calls in one run.
MaxWrites == 5

\* The number of tasks calling Logger concurrently.
MaxTasks == 2

\* Number of LogBackend.Close calls in one run.
MaxCloses == 2

\* Number of log calls made through the logger handles in one run.
MaxLogCalls == 3

\* Largest number of lines of a config file found at the config path.
MaxCfgLines == 2

\* Number of LoadBotConfig calls in one run.
MaxLoads == 2

\* ----------------------------------------------------------- event kinds

\* The notification kinds in the order Run starts them.
Kinds == <<"gc", "invite", "pm", "kx", "post", "postStatus", "tipProgress", "tipReceived">>

KindSet == {Kinds[i] : i \in 1..Len(Kinds)}

\* The channel configurations tried: which send-channels of the BotConfig
\* are non-nil.  None, each kind alone, one pair, one triple.
ChanConfigs ==
    {{}} \cup {{k} : k \in KindSet}
         \cup {{"pm", "post"}, {"postStatus", "tipProgress", "tipReceived"}}

\* The buffer sizes of the caller's channels tried: unbuffered, and buffered
\* with one slot (full after one item).
ChanCaps == {0, 1}

\* ---------------------------------------------------------------- errors

NoErr == [type |-> "nil", src |-> "-"]

\* ctx.Err() of a cancelled context.
Canceled == [type |-> "canceled", src |-> "-"]

\* The failure of a receive on the stream of kind k.
StreamErr(k) == [type |-> "stream", src |-> k]

\* The n-th item of the stream of kind k.
Item(k, n) == n

\* The lines written to the log buffer.
LogLines == {"a", "b", "c"}

VARIABLES
    chans,          \* kinds whose send-channel is non-nil (b.gcChan, ...)
    chanCap,        \* buffer size of the caller's channels
    runPc,          \* Run: "idle", "launch", "wait", "returned"
    runIdx,         \* Run: index in Kinds of the next kind to start
    runRet,         \* what Run returned
    ctxCancelled,   \* the caller's ctx is cancelled
    gctxCancelled,  \* the errgroup's derived context is cancelled
    groupErr,       \* errgroup's recorded error (g.err)
    pc,             \* per kind: "none" (no goroutine), "recv", "fwd", "done"
    cur,            \* per kind: the item received and not yet forwarded (0: none)
    taskErr,        \* per kind: what the task returned
    recvSeq,        \* per kind: items received from the stream, in order
    fwdSeq,         \* per kind: items sent on the channel, in order
    chanBuf,        \* per kind: items in the channel's buffer
    consumed,       \* per kind: items the consumer has taken from the channel
    stalled,        \* kinds whose consumer has stopped reading
    failOrder,      \* kinds in the order their tasks ended with an error
    launchCount,    \* per kind: number of g.Go calls made for it
    lines,          \* LogBuffer.lines
    max,            \* LogBuffer.max
    bufPanicked,    \* a LogBuffer.Write panicked (slice bounds out of range)
    lastResult,     \* result of the latest LastLogLines call
    appended,       \* every line a LogBuffer.Write call has taken, in order
    defaultLogLevel,\* LogBackend.defaultLogLevel
    logLevels,      \* LogBackend.logLevels: subsystem -> level
    loggers,        \* LogBackend.loggers: subsystem -> handle (index in handleLevel)
    handleLevel,    \* the level of every logger handle created, by handle
    loggersMtx,     \* LogBackend.loggersMtx: 0 (free) or the task holding it
    tpc,            \* per task: where it is in Logger or SetLogLevel ("idle": in no call)
    targ,           \* per task: the argument of its call
    tloc,           \* per task: the handle l it created (0: none)
    tret,           \* per task: the handle its last Logger call returned (0: none)
    setErr,         \* per task: what its last SetLogLevel call returned
    created,        \* subsystem -> number of handles created for it
    returned,       \* subsystem -> handles Logger calls have returned for it
    newErr,         \* what NewLogBackend returned as error ("unbuilt": not called)
    backend,        \* NewLogBackend returned a backend
    cfgDebugLevel,  \* the DebugLevel NewLogBackend was given
    hasRotator,     \* LogBackend.logRotator != nil
    rotatorOpen,    \* a rotator has been opened and not closed
    useStdout,      \* LogBackend.useStdout
    hasLogCb,       \* LogBackend.logCb != nil
    hasErrorMsg,    \* LogBackend.errorMsg != nil
    fileOut,        \* what has been written to the rotator
    stdOut,         \* what has been written to os.Stdout
    logCbArgs,      \* the arguments logCb has been called with
    errorMsgArgs,   \* the arguments errorMsg has been called with
    rotCloseCalls,  \* number of logRotator.Close() calls made by LogBackend.Close
    closeErrs,      \* what the LogBackend.Close calls returned, in order
    wsPc,           \* where the goroutine started by NewBot is
    botCtxCancelled,\* the context NewBot created (Bot.ctx) is cancelled
    wscClosed,      \* Bot.Close has closed the websocket client
    slogMu,         \* the mutex of slog.Backend: 0 (free) or the task holding it
    bufMu,          \* LogBuffer.mu: 0 (free) or the task holding it
    wpc,            \* per task: where it is in a log call ("idle": in none)
    wrec,           \* per task: the record of its log call
    bufArr,         \* the array behind b.lines (its length: the capacity from 0)
    bufOff,         \* number of elements of bufArr before the first of b.lines
    resArr,         \* the array behind the slice LastLogLines returned last
    resOff,         \* number of elements of that array before the slice
    resLen,         \* length of that slice
    resShared,      \* that array is the array behind b.lines (resArr unused)
    cbView,         \* <<record, lines>>: what a callback's LastLogLines returned last
    cfgFile,        \* the file at the config path: whether it exists, lines, mode
    loadRet,        \* what the last LoadBotConfig call returned (err "none": not called)
    loadCalls       \* number of LoadBotConfig calls made

botVars == <<chans, chanCap, runPc, runIdx, runRet, ctxCancelled, gctxCancelled, groupErr,
             pc, cur, taskErr, recvSeq, fwdSeq, chanBuf, consumed, stalled, failOrder,
             launchCount>>

bufVars == <<lines, max, bufPanicked, lastResult, appended>>

lvlVars == <<defaultLogLevel, logLevels, loggers, handleLevel, loggersMtx, tpc, targ,
             tloc, tret, setErr, created, returned>>

bkVars == <<newErr, backend, cfgDebugLevel, hasRotator, rotatorOpen, useStdout, hasLogCb,
            hasErrorMsg, fileOut, stdOut, logCbArgs, errorMsgArgs>>

clVars == <<rotCloseCalls, closeErrs>>

wsVars == <<wsPc, botCtxCancelled, wscClosed>>

cwVars == <<slogMu, bufMu, wpc, wrec>>

alVars == <<bufArr, bufOff, resArr, resOff, resLen, resShared>>

cfVars == <<cfgFile, loadRet, loadCalls>>

extVars == <<alVars, cbView, cfVars>>

vars == <<chans, chanCap, runPc, runIdx, runRet, ctxCancelled, gctxCancelled, groupErr,
          pc, cur, taskErr, recvSeq, fwdSeq, chanBuf, consumed, stalled, failOrder,
          launchCount, lines, max, bufPanicked, lastResult, appended,
          defaultLogLevel, logLevels, loggers, handleLevel, loggersMtx, tpc, targ,
          tloc, tret, setErr, created, returned,
          newErr, backend, cfgDebugLevel, hasRotator, rotatorOpen, useStdout, hasLogCb,
          hasErrorMsg, fileOut, stdOut, logCbArgs, errorMsgArgs,
          rotCloseCalls, closeErrs, wsPc, botCtxCancelled, wscClosed,
          slogMu, bufMu, wpc, wrec,
          bufArr, bufOff, resArr, resOff, resLen, resShared, cbView,
          cfgFile, loadRet, loadCalls>>

\* ------------------------------------------------------------------ Init

\* The Bot as NewBot returns it: channels copied from the config, Run not
\* yet called, no goroutine of Run started.
InitBot ==
    /\ chans \in ChanConfigs
    /\ chanCap \in ChanCaps
    /\ runPc = "idle"
    /\ runIdx = 1
    /\ runRet = NoErr
    /\ ctxCancelled = FALSE
    /\ gctxCancelled = FALSE
    /\ groupErr = NoErr
    /\ pc = [k \in KindSet |-> "none"]
    /\ cur = [k \in KindSet |-> 0]
    /\ taskErr = [k \in KindSet |-> NoErr]
    /\ recvSeq = [k \in KindSet |-> <<>>]
    /\ fwdSeq = [k \in KindSet |-> <<>>]
    /\ chanBuf = [k \in KindSet |-> <<>>]
    /\ consumed = [k \in KindSet |-> <<>>]
    /\ stalled = {}
    /\ failOrder = <<>>
    /\ launchCount = [k \in KindSet |-> 0]

\* slog's LevelInfo, which LevelFromString also returns for an unknown name.
LevelInfo == "info"

\* The subsystem names Logger is called with.
LoggerNames == {<<"X">>, <<"Y">>}

LvlTasks == 1..MaxTasks

\* The levels, loggers and mutex of a backend NewLogBackend returned for an
\* empty DebugLevel, with no call in progress.
InitLvl ==
    /\ defaultLogLevel = LevelInfo
    /\ logLevels = <<>>
    /\ loggers = <<>>
    /\ handleLevel = <<>>
    /\ loggersMtx = 0
    /\ tpc = [t \in LvlTasks |-> "idle"]
    /\ targ = [t \in LvlTasks |-> <<>>]
    /\ tloc = [t \in LvlTasks |-> 0]
    /\ tret = [t \in LvlTasks |-> 0]
    /\ setErr = [t \in LvlTasks |-> "none"]
    /\ created = [n \in LoggerNames |-> 0]
    /\ returned = [n \in LoggerNames |-> {}]

\* The sinks of a backend NewLogBackend returned for LogConfig{}: no file,
\* stdout, no callbacks, nothing written yet.
InitBk ==
    /\ newErr = "nil"
    /\ backend = TRUE
    /\ cfgDebugLevel = <<>>
    /\ hasRotator = FALSE
    /\ rotatorOpen = FALSE
    /\ useStdout = TRUE
    /\ hasLogCb = FALSE
    /\ hasErrorMsg = FALSE
    /\ fileOut = <<>>
    /\ stdOut = <<>>
    /\ logCbArgs = <<>>
    /\ errorMsgArgs = <<>>

\* b.lines is nil and LastLogLines has returned nothing yet.
InitAlias ==
    /\ bufArr = <<>>
    /\ bufOff = 0
    /\ resArr = <<>>
    /\ resOff = 0
    /\ resLen = 0
    /\ resShared = FALSE

\* A BotConfig with nothing set (the fields followed: RPCUser, RPCPass,
\* Debug, ExtraConfig).
NoCfg == [rpcuser |-> <<>>, rpcpass |-> <<>>, debug |-> <<>>, extra |-> <<>>]

\* No file at the config path.
NoFile == [exists |-> FALSE, lines |-> <<>>, readable |-> FALSE, writable |-> FALSE]

\* LoadBotConfig has not been called.
InitNoLoad ==
    /\ loadRet = [err |-> "none", cfg |-> NoCfg]
    /\ loadCalls = 0

\* Close not called yet; the goroutine NewBot started is inside wsc.Run;
\* no log call in progress and no callback has run; no config file.
InitExt ==
    /\ InitAlias
    /\ cbView = <<>>
    /\ cfgFile = NoFile
    /\ InitNoLoad
    /\ rotCloseCalls = 0
    /\ closeErrs = <<>>
    /\ wsPc = "run"
    /\ botCtxCancelled = FALSE
    /\ wscClosed = FALSE
    /\ slogMu = 0
    /\ bufMu = 0
    /\ wpc = [t \in LvlTasks |-> "idle"]
    /\ wrec = [t \in LvlTasks |-> <<>>]

\* NewLogBuffer(maxLines): no lines, max = maxLines.
NewLogBuffer(maxLines) ==
    /\ lines = <<>>
    /\ max = maxLines
    /\ bufPanicked = FALSE
    /\ lastResult = <<>>
    /\ appended = <<>>

Init ==
    /\ InitBot
    /\ NewLogBuffer(MaxBufLines)
    /\ InitLvl
    /\ InitBk
    /\ InitExt

\* ------------------------------------------------------------ errgroup

\* An errgroup that keeps the error of the task that ended last.
GroupErrLast(old, err) == err

\* A group that drops the errors of its tasks (a bare WaitGroup).
GroupErrDropped(old, err) == old

\* errgroup's errOnce: the first non-nil error is kept.
GroupErrAfter(old, err) == IF old = NoErr THEN err ELSE old

\* The goroutine started by g.Go returns err: record it (errOnce, cancel the
\* group's context) and mark the goroutine done (wg.Done).
TaskReturn(k, err) ==
    /\ pc' = [pc EXCEPT ![k] = "done"]
    /\ taskErr' = [taskErr EXCEPT ![k] = err]
    /\ IF err # NoErr
          THEN /\ groupErr' = GroupErrAfter(groupErr, err)
               /\ gctxCancelled' = TRUE
               /\ failOrder' = Append(failOrder, k)
          ELSE UNCHANGED <<groupErr, gctxCancelled, failOrder>>

\* ------------------------------------------------- the subscription task

\* The channel of kind k accepts a send: a buffered channel with room, or
\* an unbuffered one whose consumer is receiving.
CanSend(k) ==
    IF chanCap = 0 THEN k \notin stalled ELSE Len(chanBuf[k]) < chanCap

\* A task that sends something else than what it received.
SentChanged(k) == cur[k] + 1

\* What the task sends: the item it received, unchanged.
Sent(k) == cur[k]

\* The receive returns the next item of the stream.
RecvItem(k) ==
    /\ pc[k] = "recv"
    /\ Len(recvSeq[k]) < MaxItems
    /\ LET it == Item(k, Len(recvSeq[k]) + 1) IN
         /\ cur' = [cur EXCEPT ![k] = it]
         /\ recvSeq' = [recvSeq EXCEPT ![k] = Append(@, it)]
    /\ pc' = [pc EXCEPT ![k] = "fwd"]
    /\ UNCHANGED <<chans, chanCap, runPc, runIdx, runRet, ctxCancelled, gctxCancelled,
                   groupErr, taskErr, fwdSeq, chanBuf, consumed, stalled, failOrder,
                   launchCount, bufVars, lvlVars, bkVars, clVars, extVars, wsVars, cwVars>>

\* The receive fails: the failure is the task's outcome.
RecvFail(k) ==
    /\ pc[k] = "recv"
    /\ TaskReturn(k, StreamErr(k))
    /\ UNCHANGED <<chans, chanCap, runPc, runIdx, runRet, ctxCancelled, cur, recvSeq,
                   fwdSeq, chanBuf, consumed, stalled, launchCount, bufVars, lvlVars, bkVars, clVars, extVars, wsVars, cwVars>>

\* The task sees its context cancelled (at the loop head, or while suspended
\* in the receive) and returns the cancellation reason.
RecvCancelled(k) ==
    /\ pc[k] = "recv"
    /\ gctxCancelled
    /\ TaskReturn(k, Canceled)
    /\ UNCHANGED <<chans, chanCap, runPc, runIdx, runRet, ctxCancelled, cur, recvSeq,
                   fwdSeq, chanBuf, consumed, stalled, launchCount, bufVars, lvlVars, bkVars, clVars, extVars, wsVars, cwVars>>

\* The task sends the received item on the caller's channel and goes back to
\* the loop head.  The send blocks while the channel has no room; on an
\* unbuffered channel the item goes straight to the receiving consumer.
Forward(k) ==
    /\ pc[k] = "fwd"
    /\ CanSend(k)
    /\ fwdSeq' = [fwdSeq EXCEPT ![k] = Append(@, Sent(k))]
    /\ IF chanCap = 0
          THEN /\ consumed' = [consumed EXCEPT ![k] = Append(@, Sent(k))]
               /\ UNCHANGED chanBuf
          ELSE /\ chanBuf' = [chanBuf EXCEPT ![k] = Append(@, Sent(k))]
               /\ UNCHANGED consumed
    /\ cur' = [cur EXCEPT ![k] = 0]
    /\ pc' = [pc EXCEPT ![k] = "recv"]
    /\ UNCHANGED <<chans, chanCap, runPc, runIdx, runRet, ctxCancelled, gctxCancelled,
                   groupErr, taskErr, recvSeq, stalled, failOrder, launchCount,
                   bufVars, lvlVars, bkVars, clVars, extVars, wsVars, cwVars>>

TaskStep(k) ==
    \/ RecvItem(k)
    \/ RecvFail(k)
    \/ RecvCancelled(k)
    \/ Forward(k)

\* ------------------------------------------------------------------- Run

\* A Run that starts a task whether or not the channel is nil.
ChanNonNilAlways(k) == TRUE

\* if b.<kind>Chan != nil
ChanNonNil(k) == k \in chans

\* A Run that calls the notification loops in place instead of handing them
\* to g.Go: the next one starts when the ones before have returned.
GoReadyInPlace(i) == \A k \in KindSet : pc[k] \in {"none", "done"}

\* g.Go starts the goroutine at once (the group has no limit).
GoReady(i) == TRUE

\* A Run that returns g.err without waiting for the goroutines.
WaitReadyNoWait == TRUE

\* wg.Wait(): every goroutine started by g.Go has returned.
WaitReady == \A k \in KindSet : pc[k] \in {"none", "done"}

\* Run is called: errgroup.WithContext(ctx) derives the group's context.
RunStart ==
    /\ runPc = "idle"
    /\ runPc' = "launch"
    /\ gctxCancelled' = ctxCancelled
    /\ UNCHANGED <<chans, chanCap, runIdx, runRet, ctxCancelled, groupErr, pc, cur,
                   taskErr, recvSeq, fwdSeq, chanBuf, consumed, stalled, failOrder,
                   launchCount, bufVars, lvlVars, bkVars, clVars, extVars, wsVars, cwVars>>

\* The i-th "if chan != nil { g.Go(...) }" of Run.
Launch(i) ==
    /\ runPc = "launch"
    /\ runIdx = i
    /\ GoReady(i)
    /\ LET k == Kinds[i] IN
         IF ChanNonNil(k)
            THEN /\ pc' = [pc EXCEPT ![k] = "recv"]
                 /\ launchCount' = [launchCount EXCEPT ![k] = @ + 1]
            ELSE UNCHANGED <<pc, launchCount>>
    /\ runIdx' = i + 1
    /\ runPc' = IF i = Len(Kinds) THEN "wait" ELSE "launch"
    /\ UNCHANGED <<chans, chanCap, runRet, ctxCancelled, gctxCancelled, groupErr, cur,
                   taskErr, recvSeq, fwdSeq, chanBuf, consumed, stalled, failOrder,
                   bufVars, lvlVars, bkVars, clVars, extVars, wsVars, cwVars>>

\* return g.Wait(): waits for the goroutines, cancels the group's context
\* and returns the recorded error.
RunWait ==
    /\ runPc = "wait"
    /\ WaitReady
    /\ gctxCancelled' = TRUE
    /\ runRet' = groupErr
    /\ runPc' = "returned"
    /\ UNCHANGED <<chans, chanCap, runIdx, ctxCancelled, groupErr, pc, cur, taskErr,
                   recvSeq, fwdSeq, chanBuf, consumed, stalled, failOrder, launchCount,
                   bufVars, lvlVars, bkVars, clVars, extVars, wsVars, cwVars>>

RunStep ==
    \/ RunStart
    \/ \E i \in 1..Len(Kinds) : Launch(i)
    \/ RunWait

\* ------------------------------------------------------- the environment

\* The caller cancels the context it passed (or will pass) to Run; the
\* group's context is its child.
CallerCancel ==
    /\ ~ctxCancelled
    /\ ctxCancelled' = TRUE
    /\ gctxCancelled' = (gctxCancelled \/ runPc # "idle")
    /\ UNCHANGED <<chans, chanCap, runPc, runIdx, runRet, groupErr, pc, cur, taskErr,
                   recvSeq, fwdSeq, chanBuf, consumed, stalled, failOrder, launchCount,
                   bufVars, lvlVars, bkVars, clVars, extVars, wsVars, cwVars>>

\* The consumer of channel k takes the oldest buffered item.
Consume(k) ==
    /\ k \notin stalled
    /\ chanBuf[k] # <<>>
    /\ chanBuf' = [chanBuf EXCEPT ![k] = Tail(@)]
    /\ consumed' = [consumed EXCEPT ![k] = Append(@, Head(chanBuf[k]))]
    /\ UNCHANGED <<chans, chanCap, runPc, runIdx, runRet, ctxCancelled, gctxCancelled,
                   groupErr, pc, cur, taskErr, recvSeq, fwdSeq, stalled, failOrder,
                   launchCount, bufVars, lvlVars, bkVars, clVars, extVars, wsVars, cwVars>>

\* The consumer of channel k stops reading (while the task feeding the
\* channel runs: before and after, nothing observes it).
StopConsumer(k) ==
    /\ pc[k] \in {"recv", "fwd"}
    /\ k \notin stalled
    /\ stalled' = stalled \cup {k}
    /\ UNCHANGED <<chans, chanCap, runPc, runIdx, runRet, ctxCancelled, gctxCancelled,
                   groupErr, pc, cur, taskErr, recvSeq, fwdSeq, chanBuf, consumed,
                   failOrder, launchCount, bufVars, lvlVars, bkVars, clVars, extVars, wsVars, cwVars>>

Next ==
    \/ RunStep
    \/ \E k \in KindSet : TaskStep(k)
    \/ CallerCancel
    \/ \E k \in KindSet : Consume(k)
    \/ \E k \in KindSet : StopConsumer(k)

Spec == Init /\ [][Next]_vars

\* The channel configurations of the runs checked for termination.
FairChanConfigs == {{}, {"pm"}, {"pm", "post"}}

InitFair ==
    /\ Init
    /\ chans \in FairChanConfigs

\* The Go scheduler runs every goroutine that can take a step: each task
\* and Run itself, once called.  The caller, the consumers and the streams'
\* failures are under no obligation.
Fairness ==
    /\ \A k \in KindSet : WF_vars(TaskStep(k))
    /\ WF_vars(\E i \in 1..Len(Kinds) : Launch(i))
    /\ WF_vars(RunWait)

FairSpec == InitFair /\ [][Next]_vars /\ Fairness

\* ------------------------------------- the goroutine started by NewBot

\* wsc.Run(ctx) returns: the connection is lost or the client was closed.
\* ctx is the context NewBot made from context.Background(); nothing but
\* this goroutine cancels it.
WsRunReturns ==
    /\ wsPc = "run"
    /\ wsPc' = "log"
    /\ UNCHANGED <<botCtxCancelled, wscClosed, botVars, bufVars, lvlVars, bkVars,
                   clVars, extVars, cwVars>>

\* brLog.Errorf("websocket run ended: ...") and cancel(): the context
\* stored in Bot.ctx is cancelled.  (The line logged goes to the LogBackend,
\* whose state is followed in the runs of the backend.)
WsCancel ==
    /\ wsPc = "log"
    /\ wsPc' = "done"
    /\ botCtxCancelled' = TRUE
    /\ UNCHANGED <<wscClosed, botVars, bufVars, lvlVars, bkVars, clVars, extVars, cwVars>>

\* Bot.Close(): b.wsc.Close()
BotClose ==
    /\ ~wscClosed
    /\ wscClosed' = TRUE
    /\ UNCHANGED <<wsPc, botCtxCancelled, botVars, bufVars, lvlVars, bkVars, clVars, extVars,
                   cwVars>>

\* The channel configurations of the runs with the websocket goroutine.
WsChanConfigs == {{}, {"pm"}, {"pm", "post"}}

InitWs ==
    /\ Init
    /\ chans \in WsChanConfigs

\* Run, its tasks and their environment, next to the goroutine of NewBot.
NextWs ==
    \/ Next
    \/ WsRunReturns
    \/ WsCancel
    \/ BotClose

SpecWs == InitWs /\ [][NextWs]_vars

\* ------------------------------------------------------------- LogBuffer

\* A Write that compares with > and so lets the buffer grow by one line.
LinesAfterWriteOffByOne(ls, m, line) ==
    IF Len(ls) > m THEN Append(Tail(ls), line) ELSE Append(ls, line)

\* A Write that makes room by dropping the newest line instead of the oldest.
LinesAfterWriteDropNewest(ls, m, line) ==
    IF Len(ls) >= m THEN Append(SubSeq(ls, 1, Len(ls) - 1), line) ELSE Append(ls, line)

\* b.lines after Write(line): at capacity the oldest line is dropped first.
LinesAfterWrite(ls, m, line) ==
    IF Len(ls) >= m THEN Append(Tail(ls), line) ELSE Append(ls, line)

\* b.lines[1:] of an empty slice: slice bounds out of range.
WritePanics(ls, m) == Len(ls) >= m /\ Len(ls) = 0

\* LogBuffer.Write(p)
BufWrite(line) ==
    /\ ~bufPanicked
    /\ Len(appended) < MaxWrites
    /\ IF WritePanics(lines, max)
          THEN /\ bufPanicked' = TRUE
               /\ UNCHANGED <<lines, appended>>
          ELSE /\ lines' = LinesAfterWrite(lines, max, line)
               /\ appended' = Append(appended, line)
               /\ UNCHANGED bufPanicked
    /\ UNCHANGED <<max, lastResult, botVars, lvlVars, bkVars, clVars, extVars, wsVars, cwVars>>

\* A LastLogLines that copies from the front of the buffer.
LastLinesFromFront(ls, n) ==
    LET m == IF n > Len(ls) THEN Len(ls) ELSE n
    IN  SubSeq(ls, 1, m)

\* The n last lines of ls, oldest first (n capped at the number held).
LastLines(ls, n) ==
    LET m == IF n > Len(ls) THEN Len(ls) ELSE n
    IN  SubSeq(ls, Len(ls) - m + 1, Len(ls))

\* LogBuffer.LastLogLines(n)
LastLogLines(n) ==
    /\ ~bufPanicked
    /\ lastResult' = LastLines(lines, n)
    /\ UNCHANGED <<lines, max, bufPanicked, appended, botVars, lvlVars, bkVars, clVars, extVars, wsVars, cwVars>>

\* A bot without subscriptions whose Run is not called, and a LogBuffer of
\* any capacity up to MaxBufLines.
InitBuf ==
    /\ InitBot
    /\ chans = {}
    /\ chanCap = 0
    /\ \E n \in 0..MaxBufLines : NewLogBuffer(n)
    /\ InitLvl
    /\ InitBk
    /\ InitExt

NextBuf ==
    \/ \E line \in LogLines : BufWrite(line)
    \/ \E n \in 0..(MaxBufLines + 1) : LastLogLines(n)

SpecBuf == InitBuf /\ [][NextBuf]_vars

\* ------------------------------------------- LogBuffer: slices and arrays

\* b.lines and the slice LastLogLines returns are Go slices: a view of len
\* elements of an array from an offset on.  Two slices on one array show
\* each other's stores.

\* The lines appended in the runs that follow the arrays.
AliasLines == {"a", "b"}

\* What the caller of LastLogLines stores into the slice it got.
Edited == "edited"

\* The elements of the slice of len elements of arr from offset off on.
SliceView(arr, off, len) == SubSeq(arr, off + 1, off + len)

\* The elements of the returned slice, given the two arrays.
ResultView(ba, ra, ro, rl, sh) ==
    IF sh THEN SliceView(ba, ro, rl) ELSE SliceView(ra, ro, rl)

\* The capacities append may give the array it allocates for need elements.
GrowCaps(need) == need..(2 * need)

\* A LastLogLines that returns b.lines[len(b.lines)-n:] itself.
ResultAliased(n) ==
    LET m == IF n > Len(lines) THEN Len(lines) ELSE n
    IN  [shared |-> TRUE, arr |-> <<>>, off |-> bufOff + Len(lines) - m, len |-> m]

\* result := make([]string, n); copy(result, b.lines[len(b.lines)-n:]): a
\* slice on an array of its own.
ResultOf(n) ==
    LET m == IF n > Len(lines) THEN Len(lines) ELSE n
    IN  [shared |-> FALSE,
         arr |-> SliceView(bufArr, bufOff + Len(lines) - m, m),
         off |-> 0, len |-> m]

\* LogBuffer.LastLogLines(n), the slice it returns included.
AlLastLogLines(n) ==
    LET r == ResultOf(n)
    IN  /\ ~bufPanicked
        /\ resShared' = r.shared
        /\ resArr' = r.arr
        /\ resOff' = r.off
        /\ resLen' = r.len
        /\ lastResult' = ResultView(bufArr, r.arr, r.off, r.len, r.shared)
        /\ UNCHANGED <<lines, max, bufPanicked, appended, bufArr, bufOff, cbView,
                       cfVars, botVars, lvlVars, bkVars, clVars, wsVars, cwVars>>

\* LogBuffer.Write(line) on the arrays: at capacity b.lines[1:] moves the
\* offset; append stores in place when the array has room behind the slice
\* and allocates an array otherwise, which leaves the old one to whoever
\* still holds a slice on it.
AlWrite(line) ==
    /\ ~bufPanicked
    /\ Len(appended) < MaxWrites
    /\ IF WritePanics(lines, max)
          THEN /\ bufPanicked' = TRUE
               /\ UNCHANGED <<lines, appended, lastResult, alVars>>
          ELSE LET evict == Len(lines) >= max
                   off == IF evict THEN bufOff + 1 ELSE bufOff
                   len == IF evict THEN Len(lines) - 1 ELSE Len(lines)
                   inPlace == off + len < Len(bufArr)
               IN  /\ IF inPlace
                         THEN /\ bufArr' = [bufArr EXCEPT ![off + len + 1] = line]
                              /\ bufOff' = off
                              /\ UNCHANGED <<resArr, resShared>>
                         ELSE /\ \E c \in GrowCaps(len + 1) :
                                    bufArr' = SliceView(bufArr, off, len) \o <<line>> \o
                                              [i \in 1..(c - len - 1) |-> ""]
                              /\ bufOff' = 0
                              /\ resArr' = IF resShared THEN bufArr ELSE resArr
                              /\ resShared' = FALSE
                   /\ lines' = SliceView(bufArr', bufOff', len + 1)
                   /\ lastResult' = ResultView(bufArr', resArr', resOff, resLen, resShared')
                   /\ appended' = Append(appended, line)
                   /\ UNCHANGED <<bufPanicked, resOff, resLen>>
    /\ UNCHANGED <<max, cbView, cfVars, botVars, lvlVars, bkVars, clVars, wsVars, cwVars>>

\* The caller stores into element i of the slice LastLogLines returned.
AlModify(i) ==
    /\ ~bufPanicked
    /\ i <= resLen
    /\ IF resShared
          THEN /\ bufArr' = [bufArr EXCEPT ![resOff + i] = Edited]
               /\ UNCHANGED resArr
          ELSE /\ resArr' = [resArr EXCEPT ![resOff + i] = Edited]
               /\ UNCHANGED bufArr
    /\ lines' = SliceView(bufArr', bufOff, Len(lines))
    /\ lastResult' = ResultView(bufArr', resArr', resOff, resLen, resShared)
    /\ UNCHANGED <<max, bufPanicked, appended, bufOff, resOff, resLen, resShared,
                   cbView, cfVars, botVars, lvlVars, bkVars, clVars, wsVars, cwVars>>

\* A LogBuffer written to and read, and a caller that stores into what it
\* read.
NextAlias ==
    \/ \E line \in AliasLines : AlWrite(line)
    \/ \E n \in 0..(MaxBufLines + 1) : AlLastLogLines(n)
    \/ \E i \in 1..MaxBufLines : AlModify(i)

SpecAlias == InitBuf /\ [][NextAlias]_vars

\* ------------------------------------------- LogBackend: severity levels

\* A spec string is the sequence of its tokens: the separators "=" and ","
\* and maximal runs of other characters.
EqSign == "="

Comma == ","

\* The level names slog.LevelFromString recognises (full names).
LevelNames == {"trace", "debug", "info", "warn", "error", "critical", "off"}

\* A LevelFromString that takes every name for a level.
LevelFromStringLenient(f) ==
    IF Len(f) = 1 /\ f[1] \in LevelNames
       THEN [level |-> f[1], ok |-> TRUE]
       ELSE [level |-> LevelInfo, ok |-> TRUE]

\* slog.LevelFromString(f): (the level, true) for a level name, (LevelInfo,
\* false) for anything else.
LevelFromString(f) ==
    IF Len(f) = 1 /\ f[1] \in LevelNames
       THEN [level |-> f[1], ok |-> TRUE]
       ELSE [level |-> LevelInfo, ok |-> FALSE]

\* strings.Split(s, sep): the pieces of s between the occurrences of sep;
\* one piece (s itself) when sep does not occur.
RECURSIVE Split(_, _)
Split(s, sep) ==
    IF \A i \in 1..Len(s) : s[i] # sep
       THEN <<s>>
       ELSE LET i == CHOOSE j \in 1..Len(s) :
                        s[j] = sep /\ \A h \in 1..(j - 1) : s[h] # sep
            IN  <<SubSeq(s, 1, i - 1)>> \o Split(SubSeq(s, i + 1, Len(s)), sep)

\* The spec strings SetLogLevel is called with: "", "warn", "debug", "X",
\* "warndebug", "X=warn", "X=debug", "X=X", "X=", "=warn", "X=warn=debug", "==".
SetLevelSpecs ==
    { <<>>, <<"warn">>, <<"debug">>, <<"X">>, <<"warn", "debug">>,
      <<"X", EqSign, "warn">>, <<"X", EqSign, "debug">>, <<"X", EqSign, "X">>,
      <<"X", EqSign>>, <<EqSign, "warn">>,
      <<"X", EqSign, "warn", EqSign, "debug">>, <<EqSign, EqSign>> }

\* m with key k set to v (a Go map assignment).
MapSet(m, k, v) == [x \in (DOMAIN m) \cup {k} |-> IF x = k THEN v ELSE m[x]]

\* A backend whose mutex never excludes anyone.
MtxFreeAlways == TRUE

\* b.loggersMtx can be locked.
MtxFree == loggersMtx = 0

\* A Logger that leaves a new handle at the level slog created it with.
LevelForAsCreated(subsys) == LevelInfo

\* The level Logger gives a new handle: logLevels[subsys] if present, else
\* the default.
LevelFor(subsys) ==
    IF subsys \in DOMAIN logLevels THEN logLevels[subsys] ELSE defaultLogLevel

\* The handles' levels after the loop of SetLogLevel's bare form: every
\* logger without a level of its own is set to lvl.
ReapplyDefault(hl, lvl) ==
    [h \in DOMAIN hl |->
        IF \E s \in DOMAIN loggers : loggers[s] = h /\ s \notin DOMAIN logLevels
           THEN lvl ELSE hl[h]]

\* A subsystem form that sets the level of every instantiated logger.
ApplySubsysToAll(hl, subsys, lvl) ==
    [h \in DOMAIN hl |->
        IF \E s \in DOMAIN loggers : loggers[s] = h THEN lvl ELSE hl[h]]

\* The handles' levels after SetLogLevel's subsystem form: the logger of
\* subsys, if instantiated, is set to lvl.
ApplySubsys(hl, subsys, lvl) ==
    [h \in DOMAIN hl |->
        IF subsys \in DOMAIN loggers /\ loggers[subsys] = h THEN lvl ELSE hl[h]]

\* Task t calls b.Logger(subsys).
LoggerCall(t, subsys) ==
    /\ tpc[t] = "idle"
    /\ tpc' = [tpc EXCEPT ![t] = "lg_lock"]
    /\ targ' = [targ EXCEPT ![t] = subsys]
    /\ tloc' = [tloc EXCEPT ![t] = 0]
    /\ tret' = [tret EXCEPT ![t] = 0]
    /\ UNCHANGED <<defaultLogLevel, logLevels, loggers, handleLevel, loggersMtx,
                   setErr, created, returned, botVars, bufVars, bkVars, clVars, extVars, wsVars, cwVars>>

\* b.loggersMtx.Lock() in Logger.
LoggerLock(t) ==
    /\ tpc[t] = "lg_lock"
    /\ MtxFree
    /\ loggersMtx' = t
    /\ tpc' = [tpc EXCEPT ![t] = "lg_lookup"]
    /\ UNCHANGED <<defaultLogLevel, logLevels, loggers, handleLevel, targ, tloc,
                   tret, setErr, created, returned, botVars, bufVars, bkVars, clVars, extVars, wsVars, cwVars>>

\* if l, ok := b.loggers[subsys]; ok { return l }, the deferred Unlock
\* included.
LoggerLookup(t) ==
    /\ tpc[t] = "lg_lookup"
    /\ IF targ[t] \in DOMAIN loggers
          THEN /\ tret' = [tret EXCEPT ![t] = loggers[targ[t]]]
               /\ returned' = [returned EXCEPT ![targ[t]] = @ \cup {loggers[targ[t]]}]
               /\ loggersMtx' = 0
               /\ tpc' = [tpc EXCEPT ![t] = "idle"]
          ELSE /\ tpc' = [tpc EXCEPT ![t] = "lg_create"]
               /\ UNCHANGED <<tret, returned, loggersMtx>>
    /\ UNCHANGED <<defaultLogLevel, logLevels, loggers, handleLevel, targ, tloc,
                   setErr, created, botVars, bufVars, bkVars, clVars, extVars, wsVars, cwVars>>

\* l := b.bknd.Logger(subsys); b.loggers[subsys] = l
LoggerCreate(t) ==
    /\ tpc[t] = "lg_create"
    /\ handleLevel' = Append(handleLevel, LevelInfo)
    /\ tloc' = [tloc EXCEPT ![t] = Len(handleLevel) + 1]
    /\ loggers' = MapSet(loggers, targ[t], Len(handleLevel) + 1)
    /\ created' = [created EXCEPT ![targ[t]] = @ + 1]
    /\ tpc' = [tpc EXCEPT ![t] = "lg_level"]
    /\ UNCHANGED <<defaultLogLevel, logLevels, loggersMtx, targ, tret, setErr,
                   returned, botVars, bufVars, bkVars, clVars, extVars, wsVars, cwVars>>

\* l.SetLevel(level or default); return l, the deferred Unlock included.
LoggerSetLevel(t) ==
    /\ tpc[t] = "lg_level"
    /\ handleLevel' = [handleLevel EXCEPT ![tloc[t]] = LevelFor(targ[t])]
    /\ tret' = [tret EXCEPT ![t] = tloc[t]]
    /\ returned' = [returned EXCEPT ![targ[t]] = @ \cup {tloc[t]}]
    /\ loggersMtx' = 0
    /\ tpc' = [tpc EXCEPT ![t] = "idle"]
    /\ UNCHANGED <<defaultLogLevel, logLevels, loggers, targ, tloc, setErr,
                   created, botVars, bufVars, bkVars, clVars, extVars, wsVars, cwVars>>

\* Task t calls b.SetLogLevel(s) and runs it up to its return or to the
\* Lock: the empty spec returns nil; the bare form stores what
\* LevelFromString returned in defaultLogLevel and only then looks at ok; the
\* subsystem form stores the level in logLevels once it is known to be one.
SetLevelStart(t, s) ==
    LET fields == Split(s, EqSign)
        bare == LevelFromString(fields[1])
        sub == LevelFromString(fields[2])
    IN  /\ tpc[t] = "idle"
        /\ targ' = [targ EXCEPT ![t] = s]
        /\ IF s = <<>>
              THEN /\ setErr' = [setErr EXCEPT ![t] = "nil"]
                   /\ UNCHANGED <<defaultLogLevel, logLevels, tpc>>
              ELSE IF Len(fields) = 1
              THEN /\ defaultLogLevel' = bare.level
                   /\ IF bare.ok
                         THEN /\ tpc' = [tpc EXCEPT ![t] = "sl_lock"]
                              /\ setErr' = [setErr EXCEPT ![t] = "pending"]
                         ELSE /\ setErr' = [setErr EXCEPT ![t] = "unknown level"]
                              /\ UNCHANGED tpc
                   /\ UNCHANGED logLevels
              ELSE IF Len(fields) = 2
              THEN /\ IF sub.ok
                         THEN /\ logLevels' = MapSet(logLevels, fields[1], sub.level)
                              /\ tpc' = [tpc EXCEPT ![t] = "sl_lock"]
                              /\ setErr' = [setErr EXCEPT ![t] = "pending"]
                         ELSE /\ setErr' = [setErr EXCEPT ![t] = "unknown level"]
                              /\ UNCHANGED <<logLevels, tpc>>
                   /\ UNCHANGED defaultLogLevel
              ELSE /\ setErr' = [setErr EXCEPT ![t] = "unable to parse"]
                   /\ UNCHANGED <<defaultLogLevel, logLevels, tpc>>
        /\ UNCHANGED <<loggers, handleLevel, loggersMtx, tloc, tret, created,
                       returned, botVars, bufVars, bkVars, clVars, extVars, wsVars, cwVars>>

\* b.loggersMtx.Lock() in SetLogLevel.
SetLevelLock(t) ==
    /\ tpc[t] = "sl_lock"
    /\ MtxFree
    /\ loggersMtx' = t
    /\ tpc' = [tpc EXCEPT ![t] = "sl_apply"]
    /\ UNCHANGED <<defaultLogLevel, logLevels, loggers, handleLevel, targ, tloc,
                   tret, setErr, created, returned, botVars, bufVars, bkVars, clVars, extVars, wsVars, cwVars>>

\* The locked part of SetLogLevel, Unlock and return nil: the bare form sets
\* every logger without a level of its own to the default, the subsystem
\* form sets the subsystem's logger if there is one.
SetLevelApply(t) ==
    LET fields == Split(targ[t], EqSign)
    IN  /\ tpc[t] = "sl_apply"
        /\ handleLevel' =
              IF Len(fields) = 1
                 THEN ReapplyDefault(handleLevel, defaultLogLevel)
                 ELSE ApplySubsys(handleLevel, fields[1], logLevels[fields[1]])
        /\ loggersMtx' = 0
        /\ setErr' = [setErr EXCEPT ![t] = "nil"]
        /\ tpc' = [tpc EXCEPT ![t] = "idle"]
        /\ UNCHANGED <<defaultLogLevel, logLevels, loggers, targ, tloc, tret,
                       created, returned, botVars, bufVars, bkVars, clVars, extVars, wsVars, cwVars>>

\* A step of task t inside Logger.
LoggerStep(t) ==
    \/ LoggerLock(t)
    \/ LoggerLookup(t)
    \/ LoggerCreate(t)
    \/ LoggerSetLevel(t)

\* A step of task t inside SetLogLevel.
SetLevelStep(t) ==
    \/ SetLevelLock(t)
    \/ SetLevelApply(t)

\* One caller making Logger and SetLogLevel calls one after the other, on a
\* bot whose Run is not called.
InitLvlSeq ==
    /\ InitBot
    /\ chans = {}
    /\ chanCap = 0
    /\ NewLogBuffer(MaxBufLines)
    /\ InitLvl
    /\ InitBk
    /\ InitExt

NextLvlSeq ==
    \/ \E n \in LoggerNames : LoggerCall(1, n)
    \/ LoggerStep(1)
    \/ \E s \in SetLevelSpecs : SetLevelStart(1, s)
    \/ SetLevelStep(1)

SpecLvl == InitLvlSeq /\ [][NextLvlSeq]_vars

\* The levels a backend is constructed with in the runs of concurrent
\* Logger calls: none, or "debug" for subsystem X.
InitLogLevels == {<<>>, MapSet(<<>>, <<"X">>, "debug")}

\* MaxTasks tasks calling Logger concurrently.
InitLoggers ==
    /\ InitBot
    /\ chans = {}
    /\ chanCap = 0
    /\ NewLogBuffer(MaxBufLines)
    /\ defaultLogLevel \in {LevelInfo, "warn"}
    /\ logLevels \in InitLogLevels
    /\ loggers = <<>>
    /\ handleLevel = <<>>
    /\ loggersMtx = 0
    /\ tpc = [t \in LvlTasks |-> "idle"]
    /\ targ = [t \in LvlTasks |-> <<>>]
    /\ tloc = [t \in LvlTasks |-> 0]
    /\ tret = [t \in LvlTasks |-> 0]
    /\ setErr = [t \in LvlTasks |-> "none"]
    /\ created = [n \in LoggerNames |-> 0]
    /\ returned = [n \in LoggerNames |-> {}]
    /\ InitBk
    /\ InitExt

NextLoggers ==
    \/ \E t \in LvlTasks : \E n \in LoggerNames : LoggerCall(t, n)
    \/ \E t \in LvlTasks : LoggerStep(t)

SpecLoggers == InitLoggers /\ [][NextLoggers]_vars

\* ------------------------------------- LogBackend: construction and Write

\* A log record is the sequence of its characters.
Digits == {"0", "1", "2", "3", "4", "5", "6", "7", "8", "9"}

\* errMsgRE, character by character; "d" stands for \d.
ErrMsgRE ==
    <<"d", "d", "d", "d", "-", "d", "d", "-", "d", "d", " ", "d", "d", ":",
      "d", "d", ":", "d", "d", ".", "d", "d", "d", " ", "[", "E", "R", "R",
      "]", " ">>

\* A match that takes any three characters between the brackets for ERR.
ErrMsgMatchAnyTag(p) ==
    /\ Len(p) >= Len(ErrMsgRE)
    /\ \A i \in 1..Len(ErrMsgRE) :
          IF ErrMsgRE[i] = "d" THEN p[i] \in Digits
          ELSE IF ErrMsgRE[i] \in {"E", "R"} THEN TRUE
          ELSE p[i] = ErrMsgRE[i]

\* errMsgRE.Match(p): the pattern is anchored at the start of p.
ErrMsgMatch(p) ==
    /\ Len(p) >= Len(ErrMsgRE)
    /\ \A i \in 1..Len(ErrMsgRE) :
          IF ErrMsgRE[i] = "d" THEN p[i] \in Digits ELSE p[i] = ErrMsgRE[i]

\* The number of bytes Write skips before the error message.
ErrSkip == 24

\* A payload without the whole of what errMsgRE matched.
ErrPayloadWholePrefix(p) == SubSeq(p, Len(ErrMsgRE) + 1, Len(p))

\* p[24:]
ErrPayload(p) == SubSeq(p, ErrSkip + 1, Len(p))

\* "2024-01-02 03:04:05.678 [ERR] boom"
RecErrBoom ==
    <<"2", "0", "2", "4", "-", "0", "1", "-", "0", "2", " ", "0", "3", ":",
      "0", "4", ":", "0", "5", ".", "6", "7", "8", " ", "[", "E", "R", "R",
      "]", " ", "b", "o", "o", "m">>

\* "2024-01-02 03:04:05.678 [INF] boom"
RecInfBoom ==
    <<"2", "0", "2", "4", "-", "0", "1", "-", "0", "2", " ", "0", "3", ":",
      "0", "4", ":", "0", "5", ".", "6", "7", "8", " ", "[", "I", "N", "F",
      "]", " ", "b", "o", "o", "m">>

\* "hi"
RecShort == <<"h", "i">>

\* The records Write is called with.
Records == {RecErrBoom, RecInfBoom, RecShort}

\* "2024-01-02 03:04:05.678 [ERR] "
RecErrEmpty ==
    <<"2", "0", "2", "4", "-", "0", "1", "-", "0", "2", " ", "0", "3", ":",
      "0", "4", ":", "0", "5", ".", "6", "7", "8", " ", "[", "E", "R", "R",
      "]", " ">>

\* "1999-12-31 23:59:59.000 [ERR] x y"
RecErrOther ==
    <<"1", "9", "9", "9", "-", "1", "2", "-", "3", "1", " ", "2", "3", ":",
      "5", "9", ":", "5", "9", ".", "0", "0", "0", " ", "[", "E", "R", "R",
      "]", " ", "x", " ", "y">>

\* "2024-01-02 03:04:05.678 [WRN] boom"
RecWrnBoom ==
    <<"2", "0", "2", "4", "-", "0", "1", "-", "0", "2", " ", "0", "3", ":",
      "0", "4", ":", "0", "5", ".", "6", "7", "8", " ", "[", "W", "R", "N",
      "]", " ", "b", "o", "o", "m">>

\* "2024-01-02 03:04:05.67x [ERR] boom"
RecErrBadStamp ==
    <<"2", "0", "2", "4", "-", "0", "1", "-", "0", "2", " ", "0", "3", ":",
      "0", "4", ":", "0", "5", ".", "6", "7", "x", " ", "[", "E", "R", "R",
      "]", " ", "b", "o", "o", "m">>

\* " 2024-01-02 03:04:05.678 [ERR] boom"
RecErrShifted ==
    <<" ", "2", "0", "2", "4", "-", "0", "1", "-", "0", "2", " ", "0", "3",
      ":", "0", "4", ":", "0", "5", ".", "6", "7", "8", " ", "[", "E", "R",
      "R", "]", " ", "b", "o", "o", "m">>

\* "2024-01-02 03:04:05.678 [ERR]boom"
RecErrNoSpace ==
    <<"2", "0", "2", "4", "-", "0", "1", "-", "0", "2", " ", "0", "3", ":",
      "0", "4", ":", "0", "5", ".", "6", "7", "8", " ", "[", "E", "R", "R",
      "]", "b", "o", "o", "m">>

\* The empty record.
RecEmpty == <<>>

\* The records of the runs with a single Write.
AllRecords ==
    Records \cup {RecErrEmpty, RecErrOther, RecWrnBoom, RecErrBadStamp, RecErrShifted,
                  RecErrNoSpace, RecEmpty}

\* The DebugLevel strings NewLogBackend is given: "", "debug", "X=warn",
\* "debug,X=warn", "X=warn,X=debug", "X=warn,debug", "warn,,debug", "X",
\* "X=X", "X=", "X=warn=debug", "debug,X=warn=debug".
DebugLevels ==
    { <<>>, <<"debug">>, <<"X", EqSign, "warn">>,
      <<"debug", Comma, "X", EqSign, "warn">>,
      <<"X", EqSign, "warn", Comma, "X", EqSign, "debug">>,
      <<"X", EqSign, "warn", Comma, "debug">>,
      <<"warn", Comma, Comma, "debug">>,
      <<"X">>, <<"X", EqSign, "X">>, <<"X", EqSign>>,
      <<"X", EqSign, "warn", EqSign, "debug">>,
      <<"debug", Comma, "X", EqSign, "warn", EqSign, "debug">> }

\* The LogConfig values: LogFile empty or not, DebugLevel, MaxBufferLines,
\* the two callbacks nil or not, UseStdout nil or a pointer to a boolean.
LogConfigs ==
    [ logFile : BOOLEAN, debugLevel : DebugLevels, maxBufferLines : 0..MaxBufLines,
      logCallback : BOOLEAN, errorCallback : BOOLEAN,
      useStdout : {"nil", "true", "false"} ]

\* The loop over the tokens toks[i..] of DebugLevel, from default level def
\* and levels lv: a bare non-empty token sets the default, subsys=level sets
\* the subsystem's level, both to whatever LevelFromString returns; a token
\* with more "=" ends the loop with an error.
RECURSIVE ParseTokens(_, _, _, _)
ParseTokens(toks, i, def, lv) ==
    IF i > Len(toks)
       THEN [err |-> FALSE, def |-> def, lv |-> lv]
       ELSE LET fields == Split(toks[i], EqSign)
            IN  IF Len(fields) = 1
                   THEN IF fields[1] # <<>>
                           THEN ParseTokens(toks, i + 1,
                                            LevelFromString(fields[1]).level, lv)
                           ELSE ParseTokens(toks, i + 1, def, lv)
                   ELSE IF Len(fields) = 2
                   THEN ParseTokens(toks, i + 1, def,
                                    MapSet(lv, fields[1],
                                           LevelFromString(fields[2]).level))
                   ELSE [err |-> TRUE, def |-> def, lv |-> lv]

\* A parser that applies the tokens from the last to the first.
ParseDebugLevelRightToLeft(d) ==
    LET toks == Split(d, Comma)
        rev == [i \in 1..Len(toks) |-> toks[Len(toks) + 1 - i]]
    IN  IF d = <<>>
           THEN [err |-> FALSE, def |-> LevelInfo, lv |-> <<>>]
           ELSE ParseTokens(rev, 1, LevelInfo, <<>>)

\* The levels NewLogBackend derives from config.DebugLevel.
ParseDebugLevel(d) ==
    IF d = <<>>
       THEN [err |-> FALSE, def |-> LevelInfo, lv |-> <<>>]
       ELSE ParseTokens(Split(d, Comma), 1, LevelInfo, <<>>)

\* A backend that mirrors to stdout only when told to.
UseStdoutOnlyIfSet(flag) == flag = "true"

\* useStdout := true; if config.UseStdout != nil { useStdout = *config.UseStdout }
UseStdoutOf(flag) == flag # "false"

\* What NewLogBackend(cfg) returns and leaves behind, given whether
\* os.MkdirAll and rotator.New succeed.
NewResult(cfg, mkdirOk, rotOk) ==
    LET parsed == ParseDebugLevel(cfg.debugLevel)
        opened == cfg.logFile /\ mkdirOk /\ rotOk
        err == IF cfg.logFile /\ ~mkdirOk THEN "failed to create log directory"
               ELSE IF cfg.logFile /\ ~rotOk THEN "failed to create file rotator"
               ELSE IF parsed.err THEN "unable to parse"
               ELSE "nil"
        ok == err = "nil"
    IN  [ err |-> err,
          backend |-> ok,
          hasRotator |-> ok /\ opened,
          rotatorOpen |-> opened,
          useStdout |-> IF ok THEN UseStdoutOf(cfg.useStdout) ELSE FALSE,
          hasLogCb |-> ok /\ cfg.logCallback,
          hasErrorMsg |-> ok /\ cfg.errorCallback,
          max |-> IF ok THEN cfg.maxBufferLines ELSE 0,
          def |-> IF ok THEN parsed.def ELSE LevelInfo,
          lv |-> IF ok THEN parsed.lv ELSE <<>> ]

\* NewLogBackend(config)
NewLogBackend(cfg, mkdirOk, rotOk) ==
    LET r == NewResult(cfg, mkdirOk, rotOk)
    IN  /\ newErr = "unbuilt"
        /\ newErr' = r.err
        /\ backend' = r.backend
        /\ cfgDebugLevel' = cfg.debugLevel
        /\ hasRotator' = r.hasRotator
        /\ rotatorOpen' = r.rotatorOpen
        /\ useStdout' = r.useStdout
        /\ hasLogCb' = r.hasLogCb
        /\ hasErrorMsg' = r.hasErrorMsg
        /\ max' = r.max
        /\ defaultLogLevel' = r.def
        /\ logLevels' = r.lv
        /\ UNCHANGED <<lines, bufPanicked, lastResult, appended, loggers,
                       handleLevel, loggersMtx, tpc, targ, tloc, tret, setErr,
                       created, returned, fileOut, stdOut, logCbArgs, errorMsgArgs,
                       botVars, clVars, extVars, wsVars, cwVars>>

\* No backend yet: NewLogBackend has not been called.
InitNew ==
    /\ InitBot
    /\ chans = {}
    /\ chanCap = 0
    /\ NewLogBuffer(0)
    /\ InitLvl
    /\ newErr = "unbuilt"
    /\ backend = FALSE
    /\ cfgDebugLevel = <<>>
    /\ hasRotator = FALSE
    /\ rotatorOpen = FALSE
    /\ useStdout = FALSE
    /\ hasLogCb = FALSE
    /\ hasErrorMsg = FALSE
    /\ fileOut = <<>>
    /\ stdOut = <<>>
    /\ logCbArgs = <<>>
    /\ errorMsgArgs = <<>>
    /\ InitExt

NextNew ==
    \E cfg \in LogConfigs : \E mkdirOk, rotOk \in BOOLEAN :
        NewLogBackend(cfg, mkdirOk, rotOk)

SpecNew == InitNew /\ [][NextNew]_vars

\* LogBackend.Write(p): the rotator and stdout get the record (fileOk,
\* stdOk: whether the write to them succeeds; Write ignores what they
\* return), then the buffer; a buffer of capacity 0 panics there and nothing
\* after it runs.  Then logCb gets the record and, if the record matches
\* errMsgRE, errorMsg gets p[24:].
WriteWith(p, fileOk, stdOk) ==
    /\ backend
    /\ ~bufPanicked
    /\ Len(appended) < MaxWrites
    /\ fileOut' = IF hasRotator /\ rotatorOpen /\ fileOk THEN Append(fileOut, p)
                                                        ELSE fileOut
    /\ stdOut' = IF useStdout /\ stdOk THEN Append(stdOut, p) ELSE stdOut
    /\ IF WritePanics(lines, max)
          THEN /\ bufPanicked' = TRUE
               /\ UNCHANGED <<lines, appended, logCbArgs, errorMsgArgs>>
          ELSE /\ lines' = LinesAfterWrite(lines, max, p)
               /\ appended' = Append(appended, p)
               /\ logCbArgs' = IF hasLogCb THEN Append(logCbArgs, p) ELSE logCbArgs
               /\ errorMsgArgs' =
                     IF hasErrorMsg /\ ErrMsgMatch(p)
                        THEN Append(errorMsgArgs, ErrPayload(p))
                        ELSE errorMsgArgs
               /\ UNCHANGED bufPanicked
    /\ UNCHANGED <<max, lastResult, newErr, backend, cfgDebugLevel, hasRotator,
                   rotatorOpen, useStdout, hasLogCb, hasErrorMsg, botVars, lvlVars,
                   clVars, extVars, wsVars, cwVars>>

\* LogBackend.Write(p) with both sinks accepting the record.
Write(p) == WriteWith(p, TRUE, TRUE)

\* The configurations of the backends written to: every combination of
\* sinks and capacities, no DebugLevel.
WriteConfigs == {cfg \in LogConfigs : cfg.debugLevel = <<>>}

\* A backend NewLogBackend has just returned for one of WriteConfigs.
InitWrite ==
    /\ InitBot
    /\ chans = {}
    /\ chanCap = 0
    /\ InitLvl
    /\ \E cfg \in WriteConfigs :
          LET r == NewResult(cfg, TRUE, TRUE)
          IN  /\ NewLogBuffer(r.max)
              /\ newErr = r.err
              /\ backend = r.backend
              /\ cfgDebugLevel = cfg.debugLevel
              /\ hasRotator = r.hasRotator
              /\ rotatorOpen = r.rotatorOpen
              /\ useStdout = r.useStdout
              /\ hasLogCb = r.hasLogCb
              /\ hasErrorMsg = r.hasErrorMsg
    /\ fileOut = <<>>
    /\ stdOut = <<>>
    /\ logCbArgs = <<>>
    /\ errorMsgArgs = <<>>
    /\ InitExt

NextWrite == \E p \in Records : Write(p)

SpecWrite == InitWrite /\ [][NextWrite]_vars

\* One Write of any record, the file and stdout failing or not.
WriteOnce(p, fileOk, stdOk) == appended = <<>> /\ WriteWith(p, fileOk, stdOk)

NextWriteOne ==
    \E p \in AllRecords : \E fileOk, stdOk \in BOOLEAN : WriteOnce(p, fileOk, stdOk)

SpecWriteOne == InitWrite /\ [][NextWriteOne]_vars

\* LogBackend.Close(): with a rotator, whatever logRotator.Close() returns,
\* every time; nil without one.  Rotator.Close closes its file, returns the
\* result and drops the file: called again it returns os.ErrInvalid.
Close ==
    /\ backend
    /\ Len(closeErrs) < MaxCloses
    /\ IF hasRotator
          THEN /\ rotCloseCalls' = rotCloseCalls + 1
               /\ closeErrs' = Append(closeErrs, IF rotatorOpen THEN "nil"
                                                                ELSE "invalid argument")
               /\ rotatorOpen' = FALSE
          ELSE /\ closeErrs' = Append(closeErrs, "nil")
               /\ UNCHANGED <<rotCloseCalls, rotatorOpen>>
    /\ UNCHANGED <<newErr, backend, cfgDebugLevel, hasRotator, useStdout, hasLogCb,
                   hasErrorMsg, fileOut, stdOut, logCbArgs, errorMsgArgs, botVars,
                   bufVars, lvlVars, wsVars, cwVars, extVars>>

\* A backend that is closed, any number of times, before or after a Write.
NextClose ==
    \/ Close
    \/ \E p \in Records : WriteOnce(p, TRUE, TRUE)

SpecClose == InitWrite /\ [][NextClose]_vars

\* A backend from its construction on: NewLogBackend, then Writes.
NextBackend ==
    \/ \E cfg \in WriteConfigs : \E mkdirOk, rotOk \in BOOLEAN :
          NewLogBackend(cfg, mkdirOk, rotOk)
    \/ \E p \in Records : Write(p)

SpecBackend == InitNew /\ [][NextBackend]_vars

\* A backend constructed from any LogConfig, then asked for loggers by one
\* caller.
NextNewLoggers ==
    \/ \E cfg \in LogConfigs : \E mkdirOk, rotOk \in BOOLEAN :
          NewLogBackend(cfg, mkdirOk, rotOk)
    \/ backend /\ \E n \in LoggerNames : LoggerCall(1, n)
    \/ LoggerStep(1)

SpecNewLoggers == InitNew /\ [][NextNewLoggers]_vars

\* ------------------------------------------- LogBackend: concurrent use

\* Records reach LogBackend.Write through the slog.Backend that
\* NewLogBackend wraps around the LogBackend: a logger handle formats the
\* record and the slog.Backend holds its mutex while it calls Write.

\* A slog.Backend that calls its writer without a mutex.
SlogMuFreeAlways == TRUE

\* The mutex of the slog.Backend can be locked.
SlogMuFree == slogMu = 0

\* The records logged in the concurrent runs.
LogRecords == {RecErrBoom, RecShort}

\* The log calls in progress.
InFlight == {t \in LvlTasks : wpc[t] \in {"w_lock", "w_file", "w_stdout", "w_buflock",
                                          "w_buf", "w_cb", "w_err", "cb_lock",
                                          "cb_read", "ecb_lock", "ecb_read"}}

\* Task t logs record p through a logger handle.
LogCall(t, p) ==
    /\ backend
    /\ ~bufPanicked
    /\ wpc[t] = "idle"
    /\ tpc[t] = "idle"
    /\ Len(appended) + Cardinality(InFlight) < MaxLogCalls
    /\ wpc' = [wpc EXCEPT ![t] = "w_lock"]
    /\ wrec' = [wrec EXCEPT ![t] = p]
    /\ UNCHANGED <<slogMu, bufMu, botVars, bufVars, lvlVars, bkVars, clVars, extVars, wsVars>>

\* slog.Backend locks its mutex and calls b.Write(p).
LogLock(t) ==
    /\ ~bufPanicked
    /\ wpc[t] = "w_lock"
    /\ SlogMuFree
    /\ slogMu' = t
    /\ wpc' = [wpc EXCEPT ![t] = "w_file"]
    /\ UNCHANGED <<bufMu, wrec, botVars, bufVars, lvlVars, bkVars, clVars, extVars, wsVars>>

\* if b.logRotator != nil { b.logRotator.Write(p) }
LogFile(t) ==
    /\ ~bufPanicked
    /\ wpc[t] = "w_file"
    /\ fileOut' = IF hasRotator /\ rotatorOpen THEN Append(fileOut, wrec[t]) ELSE fileOut
    /\ wpc' = [wpc EXCEPT ![t] = "w_stdout"]
    /\ UNCHANGED <<newErr, backend, cfgDebugLevel, hasRotator, rotatorOpen, useStdout,
                   hasLogCb, hasErrorMsg, stdOut, logCbArgs, errorMsgArgs, slogMu,
                   bufMu, wrec, botVars, bufVars, lvlVars, clVars, extVars, wsVars>>

\* if b.useStdout { os.Stdout.Write(p) }
LogStdout(t) ==
    /\ ~bufPanicked
    /\ wpc[t] = "w_stdout"
    /\ stdOut' = IF useStdout THEN Append(stdOut, wrec[t]) ELSE stdOut
    /\ wpc' = [wpc EXCEPT ![t] = "w_buflock"]
    /\ UNCHANGED <<newErr, backend, cfgDebugLevel, hasRotator, rotatorOpen, useStdout,
                   hasLogCb, hasErrorMsg, fileOut, logCbArgs, errorMsgArgs, slogMu,
                   bufMu, wrec, botVars, bufVars, lvlVars, clVars, extVars, wsVars>>

\* b.logBuffer.Write(p): b.mu.Lock()
LogBufLock(t) ==
    /\ ~bufPanicked
    /\ wpc[t] = "w_buflock"
    /\ bufMu = 0
    /\ bufMu' = t
    /\ wpc' = [wpc EXCEPT ![t] = "w_buf"]
    /\ UNCHANGED <<slogMu, wrec, botVars, bufVars, lvlVars, bkVars, clVars, extVars, wsVars>>

\* A LogBuffer.Write that returns without unlocking.
MuKeptLocked(t) == t

\* b.mu after the deferred b.mu.Unlock() of LogBuffer.Write run by task t.
MuAfterUnlock(t) == 0

\* b.logBuffer.Write(p): the append and the deferred Unlock; the panic of
\* a buffer of capacity 0 ends the process.
LogBufAppend(t) ==
    /\ ~bufPanicked
    /\ wpc[t] = "w_buf"
    /\ IF WritePanics(lines, max)
          THEN /\ bufPanicked' = TRUE
               /\ UNCHANGED <<lines, appended>>
          ELSE /\ lines' = LinesAfterWrite(lines, max, wrec[t])
               /\ appended' = Append(appended, wrec[t])
               /\ UNCHANGED bufPanicked
    /\ bufMu' = MuAfterUnlock(t)
    /\ wpc' = [wpc EXCEPT ![t] = "w_cb"]
    /\ UNCHANGED <<max, lastResult, slogMu, wrec, botVars, lvlVars, bkVars, clVars, extVars,
                   wsVars>>

\* if b.logCb != nil { b.logCb(string(p)) }
LogCb(t) ==
    /\ ~bufPanicked
    /\ wpc[t] = "w_cb"
    /\ logCbArgs' = IF hasLogCb THEN Append(logCbArgs, wrec[t]) ELSE logCbArgs
    /\ wpc' = [wpc EXCEPT ![t] = "w_err"]
    /\ UNCHANGED <<newErr, backend, cfgDebugLevel, hasRotator, rotatorOpen, useStdout,
                   hasLogCb, hasErrorMsg, fileOut, stdOut, errorMsgArgs, slogMu,
                   bufMu, wrec, botVars, bufVars, lvlVars, clVars, extVars, wsVars>>

\* The error callback, the return of Write and the Unlock of slog.Backend.
LogErr(t) ==
    /\ ~bufPanicked
    /\ wpc[t] = "w_err"
    /\ errorMsgArgs' = IF hasErrorMsg /\ ErrMsgMatch(wrec[t])
                          THEN Append(errorMsgArgs, ErrPayload(wrec[t]))
                          ELSE errorMsgArgs
    /\ slogMu' = IF slogMu = t THEN 0 ELSE slogMu
    /\ wpc' = [wpc EXCEPT ![t] = "idle"]
    /\ UNCHANGED <<newErr, backend, cfgDebugLevel, hasRotator, rotatorOpen, useStdout,
                   hasLogCb, hasErrorMsg, fileOut, stdOut, logCbArgs, bufMu, wrec,
                   botVars, bufVars, lvlVars, clVars, extVars, wsVars>>

\* A step of task t inside a log call.
LogStep(t) ==
    \/ LogLock(t)
    \/ LogFile(t)
    \/ LogStdout(t)
    \/ LogBufLock(t)
    \/ LogBufAppend(t)
    \/ LogCb(t)
    \/ LogErr(t)

\* Task t calls b.LastLogLines(n).
LastLinesCall(t, n) ==
    /\ ~bufPanicked
    /\ wpc[t] = "idle"
    /\ tpc[t] = "idle"
    /\ wpc' = [wpc EXCEPT ![t] = "ll_lock"]
    /\ wrec' = [wrec EXCEPT ![t] = <<n>>]
    /\ UNCHANGED <<slogMu, bufMu, botVars, bufVars, lvlVars, bkVars, clVars, extVars, wsVars>>

\* LogBuffer.LastLogLines: b.mu.Lock()
LastLinesLock(t) ==
    /\ ~bufPanicked
    /\ wpc[t] = "ll_lock"
    /\ bufMu = 0
    /\ bufMu' = t
    /\ wpc' = [wpc EXCEPT ![t] = "ll_read"]
    /\ UNCHANGED <<slogMu, wrec, botVars, bufVars, lvlVars, bkVars, clVars, extVars, wsVars>>

\* LogBuffer.LastLogLines: the copy, the deferred Unlock and the return.
LastLinesRead(t) ==
    /\ ~bufPanicked
    /\ wpc[t] = "ll_read"
    /\ lastResult' = LastLines(lines, wrec[t][1])
    /\ bufMu' = 0
    /\ wpc' = [wpc EXCEPT ![t] = "idle"]
    /\ UNCHANGED <<lines, max, bufPanicked, appended, slogMu, wrec, botVars, lvlVars,
                   bkVars, clVars, extVars, wsVars>>

\* A step of task t inside LastLogLines.
LastLinesStep(t) ==
    \/ LastLinesLock(t)
    \/ LastLinesRead(t)

\* The backends of the concurrent runs: NewLogBackend has just returned
\* one with a file, both callbacks and stdout, of any capacity.
InitLog ==
    /\ InitWrite
    /\ hasRotator /\ hasLogCb /\ hasErrorMsg /\ useStdout

\* MaxTasks tasks logging and reading the last lines concurrently.
NextLog ==
    \/ \E t \in LvlTasks : \E p \in LogRecords : LogCall(t, p)
    \/ \E t \in LvlTasks : LogStep(t)
    \/ \E t \in LvlTasks : LastLinesCall(t, MaxBufLines)
    \/ \E t \in LvlTasks : LastLinesStep(t)

SpecLog == InitLog /\ [][NextLog]_vars

\* The spec strings and the subsystem of the runs where everything is
\* called concurrently: "debug", "X" (no level name), "X=warn"; Logger("X").
ConcSpecs == {<<"debug">>, <<"X">>, <<"X", EqSign, "warn">>}

ConcNames == {<<"X">>}

\* MaxTasks tasks calling Logger, SetLogLevel, LastLogLines and logging,
\* each task one call at a time, one record logged in all.
NextConc ==
    \/ \E t \in LvlTasks : \E n \in ConcNames : wpc[t] = "idle" /\ LoggerCall(t, n)
    \/ \E t \in LvlTasks : LoggerStep(t)
    \/ \E t \in LvlTasks : \E s \in ConcSpecs : wpc[t] = "idle" /\ SetLevelStart(t, s)
    \/ \E t \in LvlTasks : SetLevelStep(t)
    \/ \E t \in LvlTasks : appended = <<>> /\ InFlight = {} /\ LogCall(t, RecShort)
    \/ \E t \in LvlTasks : LogStep(t)
    \/ \E t \in LvlTasks : LastLinesCall(t, MaxBufLines)
    \/ \E t \in LvlTasks : LastLinesStep(t)

InitConc ==
    /\ InitLog
    /\ max = MaxBufLines

SpecConc == InitConc /\ [][NextConc]_vars

\* ------------------------------- LogBackend: callbacks that read the buffer

\* The callbacks of the runs below call LastLogLines(n) on the backend they
\* were given to, as an interface that shows the recent lines does.

\* b.logCb(string(p)) is called: the callback goes for the buffer's lock.
CbCall(t) ==
    /\ ~bufPanicked
    /\ wpc[t] = "w_cb"
    /\ hasLogCb
    /\ logCbArgs' = Append(logCbArgs, wrec[t])
    /\ wpc' = [wpc EXCEPT ![t] = "cb_lock"]
    /\ UNCHANGED <<newErr, backend, cfgDebugLevel, hasRotator, rotatorOpen, useStdout,
                   hasLogCb, hasErrorMsg, fileOut, stdOut, errorMsgArgs, slogMu,
                   bufMu, wrec, botVars, bufVars, lvlVars, clVars, wsVars, extVars>>

\* b.logCb == nil
CbNone(t) == ~hasLogCb /\ LogCb(t)

\* b.mu.Lock() of the LastLogLines a callback calls.
CbLock(t) ==
    /\ ~bufPanicked
    /\ wpc[t] \in {"cb_lock", "ecb_lock"}
    /\ bufMu = 0
    /\ bufMu' = t
    /\ wpc' = [wpc EXCEPT ![t] = IF wpc[t] = "cb_lock" THEN "cb_read" ELSE "ecb_read"]
    /\ UNCHANGED <<slogMu, wrec, botVars, bufVars, lvlVars, bkVars, clVars, wsVars,
                   extVars>>

\* The copy and the Unlock of the LastLogLines(n) the line callback calls,
\* and the callback's return.
CbRead(t, n) ==
    /\ ~bufPanicked
    /\ wpc[t] = "cb_read"
    /\ cbView' = <<wrec[t], LastLines(lines, n)>>
    /\ bufMu' = 0
    /\ wpc' = [wpc EXCEPT ![t] = "w_err"]
    /\ UNCHANGED <<slogMu, wrec, botVars, bufVars, lvlVars, bkVars, clVars, wsVars,
                   alVars, cfVars>>

\* b.errorMsg(line) is called for a record that matches errMsgRE.
ErrCbCall(t) ==
    /\ ~bufPanicked
    /\ wpc[t] = "w_err"
    /\ hasErrorMsg /\ ErrMsgMatch(wrec[t])
    /\ errorMsgArgs' = Append(errorMsgArgs, ErrPayload(wrec[t]))
    /\ wpc' = [wpc EXCEPT ![t] = "ecb_lock"]
    /\ UNCHANGED <<newErr, backend, cfgDebugLevel, hasRotator, rotatorOpen, useStdout,
                   hasLogCb, hasErrorMsg, fileOut, stdOut, logCbArgs, slogMu,
                   bufMu, wrec, botVars, bufVars, lvlVars, clVars, wsVars, extVars>>

\* No error callback or no match: Write returns.
ErrCbNone(t) == ~(hasErrorMsg /\ ErrMsgMatch(wrec[t])) /\ LogErr(t)

\* The copy and the Unlock of the LastLogLines(n) the error callback calls,
\* the callback's return, the return of Write and the Unlock of
\* slog.Backend.
ErrCbRead(t, n) ==
    /\ ~bufPanicked
    /\ wpc[t] = "ecb_read"
    /\ cbView' = <<wrec[t], LastLines(lines, n)>>
    /\ bufMu' = 0
    /\ slogMu' = IF slogMu = t THEN 0 ELSE slogMu
    /\ wpc' = [wpc EXCEPT ![t] = "idle"]
    /\ UNCHANGED <<wrec, botVars, bufVars, lvlVars, bkVars, clVars, wsVars, alVars,
                   cfVars>>

\* The steps of task t that need no lock.
CbProgress(t) ==
    \/ LogFile(t)
    \/ LogStdout(t)
    \/ LogBufAppend(t)
    \/ CbCall(t)
    \/ CbNone(t)
    \/ ErrCbCall(t)
    \/ ErrCbNone(t)
    \/ \E n \in 1..MaxBufLines : CbRead(t, n)
    \/ \E n \in 1..MaxBufLines : ErrCbRead(t, n)
    \/ LastLinesRead(t)

\* NewLogBackend has just returned a backend with a file and stdout, with
\* or without each callback, of any capacity.
InitCb ==
    /\ InitWrite
    /\ hasRotator /\ useStdout

\* MaxTasks tasks logging and reading the last lines concurrently, the
\* callbacks reading the last lines too.
NextCb ==
    \/ \E t \in LvlTasks : \E p \in LogRecords : LogCall(t, p)
    \/ \E t \in LvlTasks : LogLock(t)
    \/ \E t \in LvlTasks : LogBufLock(t)
    \/ \E t \in LvlTasks : CbLock(t)
    \/ \E t \in LvlTasks : CbProgress(t)
    \/ \E t \in LvlTasks : LastLinesCall(t, MaxBufLines)
    \/ \E t \in LvlTasks : LastLinesLock(t)

SpecCb == InitCb /\ [][NextCb]_vars

\* A goroutine that can run does; sync.Mutex hands the lock to a waiter
\* that has waited long (starvation mode), so a Lock that is possible again
\* and again succeeds.
FairnessCb ==
    \A t \in LvlTasks :
        /\ WF_vars(CbProgress(t))
        /\ SF_vars(CbLock(t))

FairSpecCb == SpecCb /\ FairnessCb

\* ------------------------------------------------------------ LoadBotConfig

\* A line of a config file is the sequence of its tokens, like a spec
\* string.  A run of more characters than bufio.MaxScanTokenSize (64 KiB)
\* without a line break is one token:
LongRun == "x{65537}"

\* The lines a config file found at the path is made of: "rpcuser=alice",
\* "debug=warn", "note", "k=v=w", "rpcpass=" followed by the long run.
CfgLines ==
    { <<"rpcuser", EqSign, "alice">>, <<"debug", EqSign, "warn">>, <<"note">>,
      <<"k", EqSign, "v", EqSign, "w">>, <<"rpcpass", EqSign, LongRun>> }

\* What utils.GenerateRandomString returns when it succeeds.
RandStrings == {"r1", "r2"}

\* The files found at the config path: none, or up to MaxCfgLines lines,
\* readable or not, writable or not.
CfgFiles ==
    {NoFile} \cup
    UNION { [exists : {TRUE}, lines : [1..n -> CfgLines],
             readable : BOOLEAN, writable : BOOLEAN] : n \in 0..MaxCfgLines }

\* strings.SplitN(line, "=", 2): the line itself without "=", else what
\* precedes the first "=" and all that follows it.
SplitN2(line) ==
    IF \A i \in 1..Len(line) : line[i] # EqSign
       THEN <<line>>
       ELSE LET i == CHOOSE j \in 1..Len(line) :
                        line[j] = EqSign /\ \A h \in 1..(j - 1) : line[h] # EqSign
            IN  <<SubSeq(line, 1, i - 1), SubSeq(line, i + 1, Len(line))>>

\* The body of the loop of parseConfigFile for one line: a line without "="
\* is skipped, a known key sets its field, any other key goes to
\* ExtraConfig.
ParseLine(cfg, line) ==
    LET parts == SplitN2(line)
    IN  IF Len(parts) # 2 THEN cfg
        ELSE IF parts[1] = <<"rpcuser">> THEN [cfg EXCEPT !.rpcuser = parts[2]]
        ELSE IF parts[1] = <<"rpcpass">> THEN [cfg EXCEPT !.rpcpass = parts[2]]
        ELSE IF parts[1] = <<"debug">> THEN [cfg EXCEPT !.debug = parts[2]]
        ELSE [cfg EXCEPT !.extra = MapSet(@, parts[1], parts[2])]

\* scanner.Scan() stops at a line too long for its buffer.
TooLong(line) == \E i \in 1..Len(line) : line[i] = LongRun

\* The loop over the lines ls[i..] and the scanner.Err() test after it.
RECURSIVE ScanLines(_, _, _)
ScanLines(ls, i, cfg) ==
    IF i > Len(ls) THEN [err |-> "nil", cfg |-> cfg]
    ELSE IF TooLong(ls[i]) THEN [err |-> "token too long", cfg |-> NoCfg]
    ELSE ScanLines(ls, i + 1, ParseLine(cfg, ls[i]))

\* parseConfigFile(path) on an existing file.
ParseConfigFile(file) ==
    IF ~file.readable
       THEN [err |-> "permission denied", cfg |-> NoCfg]
       ELSE ScanLines(file.lines, 1, NoCfg)

\* The BotConfig LoadBotConfig builds with the credentials u and p.
DefaultCfg(u, p) ==
    [rpcuser |-> <<u>>, rpcpass |-> <<p>>, debug |-> <<"info">>, extra |-> <<>>]

\* The lines writeConfigFile formats for a cfg without ExtraConfig.
ConfigLines(cfg) ==
    << <<"rpcuser", EqSign>> \o cfg.rpcuser,
       <<"rpcpass", EqSign>> \o cfg.rpcpass,
       <<"debug", EqSign>> \o cfg.debug >>

\* LoadBotConfig(configPath, fileName), given whether os.MkdirAll and the
\* random generator succeed and what the generator returns.  os.WriteFile
\* creates the file with mode 0600 or truncates and rewrites an existing
\* one it may write to.
LoadBotConfig(mkdirOk, randOk, u, p) ==
    LET parsed == ParseConfigFile(cfgFile)
        cfg == DefaultCfg(u, p)
    IN  /\ loadCalls < MaxLoads
        /\ loadCalls' = loadCalls + 1
        /\ IF ~mkdirOk
              THEN /\ loadRet' = [err |-> "mkdir failed", cfg |-> NoCfg]
                   /\ UNCHANGED cfgFile
           ELSE IF cfgFile.exists /\ parsed.err = "nil"
              THEN /\ loadRet' = [err |-> "nil", cfg |-> parsed.cfg]
                   /\ UNCHANGED cfgFile
           ELSE IF ~randOk
              THEN /\ loadRet' = [err |-> "failed to generate random string",
                                  cfg |-> NoCfg]
                   /\ UNCHANGED cfgFile
           ELSE IF cfgFile.exists /\ ~cfgFile.writable
              THEN /\ loadRet' = [err |-> "failed to write config file", cfg |-> NoCfg]
                   /\ UNCHANGED cfgFile
              ELSE /\ loadRet' = [err |-> "nil", cfg |-> cfg]
                   /\ cfgFile' = [exists |-> TRUE,
                                  lines |-> ConfigLines(cfg),
                                  readable |-> IF cfgFile.exists THEN cfgFile.readable
                                                                 ELSE TRUE,
                                  writable |-> TRUE]
        /\ UNCHANGED <<alVars, cbView, botVars, bufVars, lvlVars, bkVars, clVars,
                       wsVars, cwVars>>

\* Any file at the config path, LoadBotConfig not called yet.
InitLoad ==
    /\ InitBot
    /\ chans = {}
    /\ chanCap = 0
    /\ NewLogBuffer(0)
    /\ InitLvl
    /\ InitBk
    /\ InitAlias
    /\ cbView = <<>>
    /\ cfgFile \in CfgFiles
    /\ InitNoLoad
    /\ rotCloseCalls = 0
    /\ closeErrs = <<>>
    /\ wsPc = "run"
    /\ botCtxCancelled = FALSE
    /\ wscClosed = FALSE
    /\ slogMu = 0
    /\ bufMu = 0
    /\ wpc = [t \in LvlTasks |-> "idle"]
    /\ wrec = [t \in LvlTasks |-> <<>>]

NextLoad ==
    \E mkdirOk, randOk \in BOOLEAN : \E u, p \in RandStrings :
        LoadBotConfig(mkdirOk, randOk, u, p)

SpecLoad == InitLoad /\ [][NextLoad]_vars

\* ================================================================ claims

ActiveTasks == {k \in KindSet : pc[k] \in {"recv", "fwd"}}

IsPrefix(s, t) == Len(s) <= Len(t) /\ SubSeq(t, 1, Len(s)) = s

\* Task k is suspended in its send: the channel has no room.
Blocked(k) == pc[k] = "fwd" /\ ~CanSend(k)

\* C1: with no active subscription, Run has not returned unless the caller's
\* context is cancelled, and what it returns is the cancellation reason,
\* never success.
C1_RunBlocksUntilCancelled ==
    (runPc = "returned" /\ chans = {}) => (ctxCancelled /\ runRet = Canceled)

\* C2: when a task has ended with an error and Run has returned, Run's
\* return value is the error of the task that failed first, and no task is
\* still running.
C2_FirstErrorWins ==
    (runPc = "returned" /\ failOrder # <<>>) =>
        /\ runRet = taskErr[failOrder[1]]
        /\ ActiveTasks = {}

\* Three subscriptions; the first to fail failed on its stream after two
\* items; Run returned that error; the two siblings stopped on the
\* cancellation, each after forwarding something.
C2_Witness ==
    /\ runPc = "returned"
    /\ Cardinality(chans) = 3
    /\ Len(failOrder) = 3
    /\ LET b == failOrder[1] IN
         /\ taskErr[b] = StreamErr(b)
         /\ runRet = StreamErr(b)
         /\ Len(recvSeq[b]) = 2
         /\ \A a \in chans \ {b} : taskErr[a] = Canceled /\ Len(fwdSeq[a]) >= 1

\* C3: Run starts one task for each kind whose channel is non-nil and none
\* for a kind whose channel is nil: a task exists only for an active
\* subscription, no kind is started twice, and once Run has gone through
\* its launches every active subscription has been started once.
C3_OneTaskPerActive ==
    \A k \in KindSet :
        /\ launchCount[k] <= 1
        /\ (pc[k] # "none" \/ launchCount[k] > 0) => k \in chans
        /\ (runPc \in {"wait", "returned"} /\ k \in chans) =>
               (launchCount[k] = 1 /\ pc[k] # "none")

\* Run waits with its three tasks running and the five other kinds unstarted.
C3_Witness ==
    /\ runPc = "wait"
    /\ Cardinality(chans) = 3
    /\ ActiveTasks = chans
    /\ \A k \in KindSet \ chans : pc[k] = "none" /\ launchCount[k] = 0

\* C4: with an active subscription, once the caller has cancelled the
\* context of a Run in progress, Run eventually returns.
C4_CancelLeadsToReturn ==
    (ctxCancelled /\ runPc \in {"launch", "wait"} /\ chans # {})
        ~> (runPc = "returned")

\* C5: once the group's context is cancelled (by the caller or by a task's
\* error), Run eventually returns, also when a task is suspended sending
\* into a channel without room whose consumer has stopped reading.
C5_StopLeadsToReturn ==
    (/\ gctxCancelled
     /\ runPc \in {"launch", "wait"}
     /\ \E k \in KindSet : Blocked(k) /\ k \in stalled)
        ~> (runPc = "returned")

\* C6: for every subscription, the items forwarded so far are a prefix of
\* the items received so far, which are the stream's items in its order.
C6_ForwardedPrefixOfReceived ==
    \A k \in KindSet :
        /\ IsPrefix(fwdSeq[k], recvSeq[k])
        /\ recvSeq[k] = [i \in 1..Len(recvSeq[k]) |-> Item(k, i)]

\* A subscription has received and forwarded two items.
C6_Witness ==
    \E k \in KindSet : Len(fwdSeq[k]) = 2 /\ fwdSeq[k] = recvSeq[k]

\* C7: while a task is suspended in its send because its consumer does not
\* read, every sibling can still take its own next step: receive when its
\* stream has an item, send when its own channel has room, and be started
\* by Run when its turn has come.
C7_BlockedTaskStallsNoSibling ==
    \A k \in KindSet : \A j \in chans \ {k} :
        (Blocked(k) /\ k \in stalled) =>
            /\ (pc[j] = "recv" /\ Len(recvSeq[j]) < MaxItems) => ENABLED RecvItem(j)
            /\ (pc[j] = "fwd" /\ CanSend(j)) => ENABLED Forward(j)
            /\ (pc[j] = "none" /\ runPc = "launch") =>
                   ENABLED (\E i \in 1..Len(Kinds) : Launch(i))

\* A task is suspended in its send while a sibling, which has forwarded
\* before, is about to forward again.
C7_Witness ==
    \E k \in KindSet : \E j \in chans \ {k} :
        /\ Blocked(k) /\ k \in stalled
        /\ pc[j] = "fwd" /\ CanSend(j) /\ Len(fwdSeq[j]) >= 1

\* C8: a task whose receive failed takes no further step (no receive, no
\* send, no restart), the failure is recorded as the group's error, and a
\* Run that returns after it returns an error.
C8_StreamFailureTerminal ==
    [][\A k \in KindSet :
          taskErr[k].type = "stream" =>
              /\ pc[k] = "done" /\ pc'[k] = "done"
              /\ taskErr'[k] = taskErr[k]
              /\ recvSeq'[k] = recvSeq[k]
              /\ fwdSeq'[k] = fwdSeq[k]
              /\ groupErr # NoErr
              /\ (runPc' = "returned" => runRet' # NoErr)]_vars

\* A stream failed before it had delivered all its items, and Run returned.
C8_Witness ==
    \E k \in KindSet :
        /\ taskErr[k] = StreamErr(k)
        /\ Len(recvSeq[k]) < MaxItems
        /\ runPc = "returned"
        /\ runRet = StreamErr(k)

\* C9: every item a task has placed on its channel is still in the channel
\* or was taken by the consumer, also after the group has stopped; and once
\* Run has returned no item is placed on any channel.
C9_ForwardedItemsStay ==
    [][/\ \A k \in KindSet : fwdSeq'[k] = consumed'[k] \o chanBuf'[k]
       /\ (runPc = "returned" => fwdSeq' = fwdSeq)]_vars

\* Run has returned and an item forwarded before is still on its channel.
C9_Witness ==
    /\ runPc = "returned"
    /\ \E k \in KindSet : chanBuf[k] # <<>> /\ fwdSeq[k] = consumed[k] \o chanBuf[k]

\* C10: the LogBuffer never holds more lines than its capacity.
C10_BufferWithinCapacity == Len(lines) <= max

\* More lines were written than the buffer holds, and it is full.
C10_Witness ==
    /\ max >= 1
    /\ Len(appended) > max
    /\ Len(lines) = max

\* C11: no LogBuffer.Write fails, whatever the capacity, 0 included.
C11_AppendNeverFails == ~bufPanicked

\* The m lines written last, oldest first.
LastAppended(m) == SubSeq(appended, Len(appended) - m + 1, Len(appended))

Min(a, b) == IF a < b THEN a ELSE b

\* C12: LastLogLines(n) returns the min(n, number of lines held) lines
\* written last, the oldest of them first.
C12_LastLinesMostRecent ==
    [][\A n \in 0..(MaxBufLines + 1) :
          LastLogLines(n) => lastResult' = LastAppended(Min(n, Len(lines)))]_vars

\* After more writes than the buffer holds, LastLogLines returned the two
\* lines written last, which differ.
C12_Witness ==
    /\ Len(appended) > max
    /\ Len(lastResult) = 2
    /\ lastResult = LastAppended(2)
    /\ lastResult[1] # lastResult[2]

\* C13: a Write to a buffer that holds max >= 1 lines drops the oldest line
\* only: the other lines move up one place in their order and the new line
\* is last.
C13_EvictionIsFifo ==
    [][\A l \in LogLines :
          (BufWrite(l) /\ max >= 1 /\ Len(lines) = max) =>
              /\ Len(lines') = max
              /\ \A i \in 1..(max - 1) : lines'[i] = lines[i + 1]
              /\ lines'[max] = l]_vars

\* A full buffer of three lines was written to: it holds the three lines
\* written last, and the first line written is gone.
C13_Witness ==
    /\ max = 3
    /\ Len(appended) = 4
    /\ lines = LastAppended(3)
    /\ appended[1] \notin {lines[i] : i \in 1..3}

\* C14: for every subsystem name at most one handle is ever created and all
\* Logger calls return that one handle, with several tasks calling at once.
C14_OneHandlePerName ==
    \A n \in LoggerNames : created[n] <= 1 /\ Cardinality(returned[n]) <= 1

\* Two tasks are inside Logger for the same name: one has created the handle
\* and holds the mutex, the other waits for it.
C14_Witness ==
    \E t, u \in LvlTasks :
        /\ tpc[t] = "lg_level"
        /\ tpc[u] = "lg_lock"
        /\ targ[t] = targ[u]
        /\ created[targ[t]] = 1

\* No call is in progress.
LvlQuiet == \A t \in LvlTasks : tpc[t] = "idle"

\* C15: between calls, every instantiated logger has the level configured
\* for its subsystem if there is one, else the current default level,
\* whether the SetLogLevel calls made so far succeeded or failed.
C15_HandleLevelIsEffective ==
    LvlQuiet =>
        \A n \in DOMAIN loggers :
            handleLevel[loggers[n]] =
                IF n \in DOMAIN logLevels THEN logLevels[n] ELSE defaultLogLevel

\* The number of "=" in a spec string.
EqCount(s) == Cardinality({i \in 1..Len(s) : s[i] = EqSign})

\* The severity a spec string names: what follows its last "=", the whole
\* string if it has none.
SevOf(s) ==
    LET eqs == {i \in 1..Len(s) : s[i] = EqSign}
        last == IF eqs = {} THEN 0 ELSE CHOOSE i \in eqs : \A j \in eqs : j <= i
    IN  SubSeq(s, last + 1, Len(s))

\* The subsystem a spec string names: what precedes its first "=".
SubsysOf(s) ==
    LET eqs == {i \in 1..Len(s) : s[i] = EqSign}
        first == CHOOSE i \in eqs : \A j \in eqs : i <= j
    IN  SubSeq(s, 1, first - 1)

IsLevelName(f) == Len(f) = 1 /\ f[1] \in LevelNames

\* s is a bare severity: no "=", and a level name.
IsBareSpec(s) == EqCount(s) = 0 /\ IsLevelName(s)

\* s is subsystem=severity with a level name for severity.
IsSubsysSpec(s) == EqCount(s) = 1 /\ IsLevelName(SevOf(s))

\* C16: SetLogLevel of a bare severity makes it the default and gives it at
\* once to every instantiated logger without a level of its own; a logger
\* created for a subsystem without a level of its own gets the default.
C16_BareSetsDefault ==
    [][\A t \in LvlTasks :
          /\ \A s \in SetLevelSpecs :
                (SetLevelStart(t, s) /\ IsBareSpec(s)) =>
                    defaultLogLevel' = s[1] /\ tpc'[t] = "sl_lock"
          /\ (SetLevelApply(t) /\ IsBareSpec(targ[t])) =>
                /\ defaultLogLevel' = targ[t][1]
                /\ setErr'[t] = "nil"
                /\ \A n \in DOMAIN loggers :
                      n \notin DOMAIN logLevels =>
                          handleLevel'[loggers[n]] = targ[t][1]
          /\ (LoggerSetLevel(t) /\ targ[t] \notin DOMAIN logLevels) =>
                handleLevel'[tret'[t]] = defaultLogLevel]_vars

\* After SetLogLevel("warn"), Logger("Y") returned a handle at warn.
C16_Witness ==
    /\ LvlQuiet
    /\ defaultLogLevel = "warn"
    /\ tret[1] # 0
    /\ targ[1] = <<"Y">>
    /\ handleLevel[tret[1]] = "warn"

\* C17: SetLogLevel of subsystem=severity changes the level of that
\* subsystem only: the default and the other loggers keep their levels, the
\* subsystem's logger, if instantiated, takes the level at once, and no
\* bare-severity SetLogLevel, valid or not, changes the level of a logger
\* with a level of its own.
C17_SubsysOnly ==
    [][\A t \in LvlTasks :
          /\ \A s \in SetLevelSpecs :
                (SetLevelStart(t, s) /\ IsSubsysSpec(s)) =>
                    /\ defaultLogLevel' = defaultLogLevel
                    /\ handleLevel' = handleLevel
                    /\ DOMAIN logLevels' = (DOMAIN logLevels) \cup {SubsysOf(s)}
                    /\ logLevels'[SubsysOf(s)] = SevOf(s)[1]
                    /\ \A x \in (DOMAIN logLevels) \ {SubsysOf(s)} :
                          logLevels'[x] = logLevels[x]
          /\ (SetLevelApply(t) /\ IsSubsysSpec(targ[t])) =>
                /\ defaultLogLevel' = defaultLogLevel
                /\ logLevels' = logLevels
                /\ \A n \in DOMAIN loggers :
                      handleLevel'[loggers[n]] =
                          IF n = SubsysOf(targ[t]) THEN SevOf(targ[t])[1]
                                                   ELSE handleLevel[loggers[n]]
          /\ \A s \in SetLevelSpecs :
                (SetLevelStart(t, s) /\ EqCount(s) = 0) =>
                    /\ logLevels' = logLevels
                    /\ handleLevel' = handleLevel
          /\ (SetLevelApply(t) /\ EqCount(targ[t]) = 0) =>
                /\ logLevels' = logLevels
                /\ \A n \in (DOMAIN loggers) \cap (DOMAIN logLevels) :
                      handleLevel'[loggers[n]] = handleLevel[loggers[n]]]_vars

\* SetLogLevel("X=debug") has set X's instantiated logger to debug while
\* Y's logger and the default stay at warn.
C17_Witness ==
    /\ LvlQuiet
    /\ targ[1] = <<"X", EqSign, "debug">>
    /\ setErr[1] = "nil"
    /\ defaultLogLevel = "warn"
    /\ <<"X">> \in DOMAIN loggers
    /\ <<"Y">> \in DOMAIN loggers
    /\ handleLevel[loggers[<<"X">>]] = "debug"
    /\ handleLevel[loggers[<<"Y">>]] = "warn"

\* A spec string SetLogLevel has to reject: more than one "=", or a
\* severity that is no level name.  The empty string names no severity.
Malformed(s) == s # <<>> /\ (EqCount(s) > 1 \/ ~IsLevelName(SevOf(s)))

\* C18: SetLogLevel returns an error for every spec string with more than
\* one "=" and for every one whose severity is not a level name, bare or
\* after "subsystem=".
C18_MalformedIsError ==
    [][\A t \in LvlTasks : \A s \in SetLevelSpecs :
          (SetLevelStart(t, s) /\ Malformed(s)) =>
              /\ setErr'[t] \in {"unknown level", "unable to parse"}
              /\ tpc'[t] = "idle"]_vars

\* SetLogLevel("X=X") has returned its error.
C18_Witness ==
    /\ targ[1] = <<"X", EqSign, "X">>
    /\ setErr[1] = "unknown level"
    /\ tpc[1] = "idle"

\* The comma-separated tokens of a DebugLevel string.
CommaTokens(d) ==
    { SubSeq(d, i, j) : <<i, j>> \in
        { ij \in (1..(Len(d) + 1)) \X (0..Len(d)) :
            /\ ij[2] >= ij[1] - 1
            /\ \A h \in ij[1]..ij[2] : d[h] # Comma
            /\ (ij[1] = 1 \/ d[ij[1] - 1] = Comma)
            /\ (ij[2] = Len(d) \/ d[ij[2] + 1] = Comma) } }

\* A DebugLevel with a token SetLogLevel would have to reject.
MalformedDebugLevel(d) == \E tok \in CommaTokens(d) : Malformed(tok)

\* C19: NewLogBackend called with a DebugLevel that has a token with more
\* than one "=" or a token whose severity is no level name returns an error
\* and no backend.
C19_MalformedFailsConstruction ==
    (newErr # "unbuilt" /\ MalformedDebugLevel(cfgDebugLevel)) =>
        (newErr # "nil" /\ ~backend)

\* "boom"
MsgBoom == <<"b", "o", "o", "m">>

\* C20: when the record last written is the [ERR] record with message
\* "boom" and an error callback is configured, the callback's last argument
\* is "boom" and nothing else.
C20_ErrPayloadIsMessage ==
    (hasErrorMsg /\ appended # <<>> /\ appended[Len(appended)] = RecErrBoom) =>
        /\ errorMsgArgs # <<>>
        /\ errorMsgArgs[Len(errorMsgArgs)] = MsgBoom

\* The positions of the digits of "YYYY-MM-DD HH:MM:SS.mmm".
StampDigits == {1, 2, 3, 4, 6, 7, 9, 10, 12, 13, 15, 16, 18, 19, 21, 22, 23}

\* " [ERR] "
ErrTag == <<" ", "[", "E", "R", "R", "]", " ">>

\* p begins with a timestamp YYYY-MM-DD HH:MM:SS.mmm followed by " [ERR] ".
IsErrRecord(p) ==
    /\ Len(p) >= 30
    /\ \A i \in StampDigits : p[i] \in Digits
    /\ p[5] = "-" /\ p[8] = "-" /\ p[11] = " "
    /\ p[14] = ":" /\ p[17] = ":" /\ p[20] = "."
    /\ SubSeq(p, 24, 30) = ErrTag

C22_WriteAlwaysDelivers ==
    [][\A p \in AllRecords : \A fileOk, stdOk \in BOOLEAN :
          WriteOnce(p, fileOk, stdOk) =>
              /\ ~bufPanicked'
              /\ appended' = Append(appended, p)
              /\ lines' # <<>> /\ lines'[Len(lines')] = p
              /\ hasLogCb => logCbArgs' = Append(logCbArgs, p)]_vars

\* C25: the backend mirrors to stdout exactly when UseStdout is nil or
\* true, a Write puts the record on stdout exactly when the backend mirrors,
\* and what the file, the buffer and the callbacks get does not depend on it.
C25_StdoutIffFlag ==
    [][/\ \A cfg \in WriteConfigs : \A mkdirOk, rotOk \in BOOLEAN :
             (NewLogBackend(cfg, mkdirOk, rotOk) /\ backend') =>
                 (useStdout' <=> cfg.useStdout \in {"nil", "true"})
       /\ \A p \in Records :
             Write(p) =>
                 /\ stdOut' = IF useStdout THEN Append(stdOut, p) ELSE stdOut
                 /\ fileOut' = IF hasRotator THEN Append(fileOut, p) ELSE fileOut
                 /\ max >= 1 =>
                       /\ appended' = Append(appended, p)
                       /\ logCbArgs' = IF hasLogCb THEN Append(logCbArgs, p)
                                                   ELSE logCbArgs
                       /\ Len(errorMsgArgs') =
                             Len(errorMsgArgs) +
                                 (IF hasErrorMsg /\ IsErrRecord(p) THEN 1 ELSE 0)]_vars

\* With mirroring off, two records have reached the file, the buffer and
\* the line callback, and stdout has nothing.
C25_Witness ==
    /\ ~useStdout
    /\ Len(appended) = 2
    /\ fileOut = appended
    /\ logCbArgs = appended
    /\ stdOut = <<>>

C23_CloseIdempotent ==
    /\ \A i \in 1..Len(closeErrs) : closeErrs[i] = "nil"
    /\ rotCloseCalls <= 1

\* C27: a SetLogLevel call that returns an error leaves the default level,
\* the levels of the subsystems and the levels of the loggers as they were.
C27_FailedSetLevelChangesNothing ==
    [][\A t \in LvlTasks : \A s \in SetLevelSpecs :
          (SetLevelStart(t, s) /\ setErr'[t] \in {"unknown level", "unable to parse"}) =>
              /\ defaultLogLevel' = defaultLogLevel
              /\ logLevels' = logLevels
              /\ handleLevel' = handleLevel]_vars

\* C28: once the goroutine of NewBot has seen wsc.Run return and has called
\* cancel, the context of the tasks of a Run in progress is cancelled.
C28_WsReturnCancelsRun ==
    (wsPc = "done" /\ runPc = "wait" /\ ActiveTasks # {}) => gctxCancelled

\* C29: when Run has returned the caller's cancellation and Close was not
\* called, the goroutine of NewBot has ended too.
C29_CallerCancelStopsWs ==
    (runPc = "returned" /\ runRet = Canceled /\ ~wscClosed) => wsPc = "done"

\* s makes SetLogLevel store a level: every bare form, and subsystem=level
\* with a level name.
StoresLevel(s) == (s # <<>> /\ EqCount(s) = 0) \/ IsSubsysSpec(s)

\* The tasks inside a section that reads the default level and the levels
\* of the subsystems.
ReadingLevels == {u \in LvlTasks : tpc[u] \in {"lg_level", "sl_apply"}}

\* C24: no task stores the default level or a subsystem's level while
\* another task is inside a locked section that reads them, unless the
\* storing task holds the lock; the logger cache and the buffer's lines are
\* accessed under their locks only.
C24_NoUnguardedAccess ==
    [][/\ \A t \in LvlTasks : \A s \in ConcSpecs :
             (SetLevelStart(t, s) /\ StoresLevel(s)) =>
                 (loggersMtx = t \/ ReadingLevels \ {t} = {})
       /\ \A t \in LvlTasks :
             (LoggerLookup(t) \/ LoggerCreate(t) \/ LoggerSetLevel(t) \/ SetLevelApply(t))
                 => loggersMtx = t
       /\ \A t \in LvlTasks :
             (LogBufAppend(t) \/ LastLinesRead(t)) => bufMu = t]_vars

\* The tasks inside the write to the file sink.
InFileWrite == {t \in LvlTasks : wpc[t] = "w_file"}

C34_NoOpenSinkAfterFailure ==
    (newErr \notin {"unbuilt", "nil"}) => ~rotatorOpen

\* The tokens of a DebugLevel string by position: the pairs <<i, j>> with
\* d[i..j] between two commas (or an end of d); j = i - 1 for an empty token.
TokenSpans(d) ==
    { ij \in (1..(Len(d) + 1)) \X (0..Len(d)) :
        /\ ij[2] >= ij[1] - 1
        /\ \A h \in ij[1]..ij[2] : d[h] # Comma
        /\ (ij[1] = 1 \/ d[ij[1] - 1] = Comma)
        /\ (ij[2] = Len(d) \/ d[ij[2] + 1] = Comma) }

\* The tokens of d of the form n=severity.
SubsysSpans(d, n) ==
    { sp \in TokenSpans(d) :
        LET tok == SubSeq(d, sp[1], sp[2])
        IN  /\ Len(tok) > Len(n)
            /\ SubSeq(tok, 1, Len(n)) = n
            /\ tok[Len(n) + 1] = EqSign }

\* The non-empty tokens of d without "=".
BareSpans(d) ==
    { sp \in TokenSpans(d) :
        sp[2] >= sp[1] /\ \A h \in sp[1]..sp[2] : d[h] # EqSign }

\* The rightmost of a set of tokens.
LastSpan(S) == CHOOSE sp \in S : \A o \in S : o[1] <= sp[1]

\* The level the DebugLevel string d asks for the logger n: the severity of
\* the last token n=severity, else the last bare severity, else info.
ExpectedLevel(d, n) ==
    IF SubsysSpans(d, n) # {}
       THEN d[LastSpan(SubsysSpans(d, n))[2]]
       ELSE IF BareSpans(d) # {}
       THEN d[LastSpan(BareSpans(d))[2]]
       ELSE "info"

\* C31: after NewLogBackend has returned a backend for a DebugLevel whose
\* tokens all name severities, every logger handed out has the level of the
\* last token naming it, else that of the last non-empty bare token, else
\* info; the default level and the subsystems' levels are stored accordingly.
C31_LevelsFromTokensInOrder ==
    (newErr = "nil" /\ backend /\ ~MalformedDebugLevel(cfgDebugLevel)) =>
        /\ \A n \in LoggerNames :
              /\ LevelFor(n) = ExpectedLevel(cfgDebugLevel, n)
              /\ (n \in DOMAIN loggers /\ tpc[1] = "idle") =>
                     handleLevel[loggers[n]] = ExpectedLevel(cfgDebugLevel, n)
        /\ \A n \in DOMAIN logLevels : SubsysSpans(cfgDebugLevel, n) # {}

\* Built from "X=warn,X=debug" and from "X=warn,debug": the logger of X has
\* the level of the last X= token, the logger of Y the default.
C31_Witness ==
    /\ newErr = "nil"
    /\ cfgDebugLevel \in { <<"X", EqSign, "warn", Comma, "X", EqSign, "debug">>,
                           <<"X", EqSign, "warn", Comma, "debug">> }
    /\ tpc[1] = "idle"
    /\ DOMAIN loggers = LoggerNames
    /\ handleLevel[loggers[<<"X">>]] = ExpectedLevel(cfgDebugLevel, <<"X">>)
    /\ handleLevel[loggers[<<"Y">>]] = ExpectedLevel(cfgDebugLevel, <<"Y">>)

\* C35: a Write of any record, the short and the empty one included, does
\* not fail, and the error callback gets a record without its first 24
\* characters only if the record has that many.
C35_WriteNeverFailsAnyLength ==
    [][\A p \in AllRecords : \A fileOk, stdOk \in BOOLEAN :
          WriteOnce(p, fileOk, stdOk) =>
              /\ ~bufPanicked'
              /\ errorMsgArgs' # errorMsgArgs => Len(p) >= 24]_vars

\* C32: LastLogLines(n) returns the last lines and leaves the lines, their
\* order, their array and the capacity as they were; a store into the
\* returned slice leaves the buffer's lines as they were, and a Write
\* leaves the returned slice as it was.
C32_LastLinesPureReadAndCopy ==
    [][/\ \A n \in 0..(MaxBufLines + 1) :
             AlLastLogLines(n) =>
                 /\ lines' = lines /\ max' = max
                 /\ bufArr' = bufArr /\ bufOff' = bufOff
                 /\ lastResult' = LastLines(lines, n)
       /\ \A i \in 1..MaxBufLines :
             AlModify(i) => (lines' = lines /\ max' = max)
       /\ \A line \in AliasLines :
             AlWrite(line) => lastResult' = lastResult
       /\ lines' = SliceView(bufArr', bufOff', Len(lines'))]_vars

\* The caller holds two lines it read and has stored into the first; the
\* buffer has since dropped lines in place and holds a newer last line, and
\* none of its lines is the stored value.
C32_Witness ==
    /\ resLen = 2
    /\ lastResult[1] = Edited
    /\ bufOff > 0
    /\ Len(lines) >= 2
    /\ lines[Len(lines)] # lastResult[2]
    /\ \A i \in 1..Len(lines) : lines[i] # Edited

\* The tasks inside a callback that reads the buffer.
InCallback == {t \in LvlTasks : wpc[t] \in {"cb_lock", "cb_read", "ecb_lock", "ecb_read"}}

\* C33: while a callback runs, the record being written is the last line
\* of the buffer and the writing task does not hold the buffer's lock when
\* the callback asks for it; every LastLogLines(n >= 1) a callback has
\* called returned lines ending with the record; and a callback that waits
\* for the buffer's lock gets it and returns.
C33_CallbacksSeeRecordUnlocked ==
    /\ [](/\ \A t \in InCallback :
               /\ lines # <<>> /\ lines[Len(lines)] = wrec[t]
               /\ wpc[t] \in {"cb_lock", "ecb_lock"} => bufMu # t
          /\ cbView # <<>> =>
               /\ cbView[2] # <<>>
               /\ cbView[2][Len(cbView[2])] = cbView[1])
    /\ \A t \in LvlTasks :
          /\ (wpc[t] = "cb_lock") ~> (wpc[t] = "w_err")
          /\ (wpc[t] = "ecb_lock") ~> (wpc[t] = "idle")

\* The error callback of one task waits for the buffer's lock, which
\* another task reading the last lines holds; the line callback has read
\* the buffer before, and the buffer holds two lines.
C33_Witness ==
    /\ \E t, u \in LvlTasks : t # u /\ wpc[t] = "ecb_lock" /\ bufMu = u
    /\ cbView # <<>>
    /\ Len(lines) >= 2

\* C36: a LoadBotConfig call that finds a file at the path leaves it as it
\* is, whether or not the file can be read and parsed; the default
\* configuration is written only where there was no file.
C36_ExistingFileNeverOverwritten ==
    [][\A mkdirOk, randOk \in BOOLEAN : \A u, p \in RandStrings :
          (LoadBotConfig(mkdirOk, randOk, u, p) /\ cfgFile.exists) =>
              cfgFile' = cfgFile]_vars

====
